---- MODULE Spec2Model ----
(***************************************************************************)
(* The embedded-controller transaction engine (ecio.txrx), the hardware    *)
(* port transport (ecio.EcIo) and the in-process simulator                 *)
(* (ecsim.EcSimulator).                                                    *)
(*                                                                         *)
(* Conventions.                                                            *)
(*  - A Python Optional value is a sequence of length at most one: <<>> is *)
(*    None and <<v>> is the value v.                                       *)
(*  - A Python str is the sequence of its character codes.                 *)
(*  - time.perf_counter() is read in ticks of the clock's resolution; the  *)
(*    only clock value txrx keeps is t0, so the model keeps                *)
(*    elapsed = perf_counter() - t0.                                       *)
(***************************************************************************)
EXTENDS Integers, Sequences, FiniteSets, TLC

VARIABLES
    ec,                 \* main.py:144  which backend the process constructed
    args,               \* main.py:138  the feature module the process runs; for
                        \*              smbios also the --field it names
    fdef,               \* the field descriptor the codecs are applied to
    catalog,            \* smbios.py:139  the module-level FIELDS dictionary
    io,                 \* the EcIo method call in flight, and its port accesses
    run,                \* the last SMBIOS.run call: its arguments and outcome
    codec,              \* the codec calls made on it, and their results
    sim,                \* the EcSimulator instance (all its fields)
    hw,                 \* the EC behind the two ports of EcIo
    pc,                 \* position of the txrx call in flight ("idle": none)
    cmd, data, expect_len, wait_s, overall_timeout_s,   \* txrx arguments
    i,                  \* txrx: number of payload bytes already written
    out,                \* txrx: bytes collected by the drain loop
    elapsed,            \* txrx: perf_counter() - t0
    timed_out,          \* txrx: a read_byte raised TimeoutError
    result,             \* txrx: how the call ended
    calls,              \* history: backend calls made by the txrx call in flight
    gen,                \* history: response built by _generate_response in the
                        \*          current simulator transaction (Optional)
    got,                \* history: bytes read_byte returned in the current
                        \*          simulator transaction, in order
    ndispatch,          \* history: runs of _generate_response in the current
                        \*          simulator transaction
    nquiet,             \* history: read_byte timeouts in the current transaction
    stale,              \* history: the current transaction's write_command
                        \*          found bytes of the one before in sim._out
    last,               \* history: the most recent backend call and its argument
    changed,            \* history: the device fields that call changed
    dispatched,         \* history: that call ran _generate_response
    ovr,                \* history: the most recent length override (Optional)
    twin                \* history: what a simulator holding the bytes the EC
                        \*          presents has collected in the same txrx call

txvars  == <<pc, cmd, data, expect_len, wait_s, overall_timeout_s, i, out,
             elapsed, timed_out, result, calls>>
histvars == <<gen, got, ndispatch, nquiet, stale, last, changed, dispatched,
              ovr, twin>>
vars == <<ec, args, fdef, catalog, io, run, codec, sim, hw, txvars, histvars>>

None == <<>>
Some(v) == <<v>>

(***************************************************************************)
(* Bounds of the model.                                                    *)
(***************************************************************************)
MaxExpect == 3          \* expect_len ranges over None and -1..MaxExpect
MaxOverall == 3         \* overall_timeout_s ranges over 0..MaxOverall ticks
MaxWait == 1            \* wait_s ranges over 0..MaxWait ticks
MaxReadTicks == 2       \* one read_byte call takes 1..MaxReadTicks ticks
MaxPayload == 3         \* payload bytes a caller of the raw API writes
MaxQuietReads == 2      \* read_byte timeouts a caller of the raw API sits out
MaxDevOut == 2          \* bytes the hardware EC holds ready at once
MaxStartTicks == 1      \* ticks between txrx taking t0 and its first loop test
MaxSwaps == 2           \* times the segment swap is applied to one buffer

Min(a, b) == IF a < b THEN a ELSE b
Max(a, b) == IF a > b THEN a ELSE b

(***************************************************************************)
(* ecsim.py helpers.                                                       *)
(***************************************************************************)
\* a 16-bit split that puts the high byte first
_le16_high_first(n) == << (n \div 256) % 256, n % 256 >>

_le16(n) == << n % 256, (n \div 256) % 256 >>

Zeros(n) == [k \in 1..n |-> 0]

\* an _ascii_fixed that cuts to length and does not pad
_ascii_fixed_no_pad(s, length) ==
    LET enc == [k \in 1..Len(s) |-> IF s[k] > 127 THEN 63 ELSE s[k]]
    IN  SubSeq(enc, 1, Min(Len(enc), length))

\* s.encode("ascii", errors="replace")[:length], zero-padded to length
_ascii_fixed(s, length) ==
    LET enc == [k \in 1..Len(s) |-> IF s[k] > 127 THEN 63 ELSE s[k]]
        b   == SubSeq(enc, 1, Min(Len(enc), length))
    IN  IF Len(b) < length THEN b \o Zeros(length - Len(b)) ELSE b

(***************************************************************************)
(* modules/smbios.py: the field codecs.  A function that can raise         *)
(* returns a record: ok says whether it returned, val is what it returned  *)
(* (<<>> when it raised) and err names the exception.                      *)
(***************************************************************************)
Ok(v) == [ok |-> TRUE, val |-> v, err |-> ""]
ValueError(msg) == [ok |-> FALSE, val |-> <<>>, err |-> msg]

FieldDef(label, length, write_cmd, write_sub, read_cmd, read_sub, encoding) ==
    [ label |-> label, length |-> length, write_cmd |-> write_cmd,
      write_sub |-> write_sub, read_cmd |-> read_cmd, read_sub |-> read_sub,
      encoding |-> encoding ]

\* (start, end) of the three leading segments, as Python slice bounds
_UUID_SEGMENTS == << <<0, 4>>, <<4, 6>>, <<6, 8>> >>

\* a swap that rotates each leading segment by one byte instead of reversing
_swap_uuid_segments_rotate(d) ==
    IF Len(d) # 16
    THEN ValueError("UUID field must be 16 bytes")
    ELSE Ok([k \in 1..16 |->
              IF \E n \in 1..Len(_UUID_SEGMENTS) :
                    _UUID_SEGMENTS[n][1] < k /\ k <= _UUID_SEGMENTS[n][2]
              THEN LET seg == _UUID_SEGMENTS[
                                CHOOSE n \in 1..Len(_UUID_SEGMENTS) :
                                    _UUID_SEGMENTS[n][1] < k
                                    /\ k <= _UUID_SEGMENTS[n][2]]
                   IN  IF k = seg[2] THEN d[seg[1] + 1] ELSE d[k + 1]
              ELSE d[k]])

\* swapped[start:end] = data[start:end][::-1] for each segment
_swap_uuid_segments(d) ==
    IF Len(d) # 16
    THEN ValueError("UUID field must be 16 bytes")
    ELSE Ok([k \in 1..16 |->
              IF \E n \in 1..Len(_UUID_SEGMENTS) :
                    _UUID_SEGMENTS[n][1] < k /\ k <= _UUID_SEGMENTS[n][2]
              THEN LET seg == _UUID_SEGMENTS[
                                CHOOSE n \in 1..Len(_UUID_SEGMENTS) :
                                    _UUID_SEGMENTS[n][1] < k
                                    /\ k <= _UUID_SEGMENTS[n][2]]
                   IN  d[seg[1] + seg[2] + 1 - k]
              ELSE d[k]])

(***************************************************************************)
(* Python str and int primitives the codecs use, on character codes.  The  *)
(* characters outside ASCII that the model knows are the Arabic-Indic      *)
(* decimal digits (U+0660..U+0669), the superscript digits U+00B2, U+00B3, *)
(* U+00B9 and characters that are neither digits nor spaces.               *)
(***************************************************************************)
\* str.isspace on one character
Spaces == {9, 10, 11, 12, 13, 28, 29, 30, 31, 32, 133, 160}

IsSpace(c) == c \in Spaces

\* str.isdigit on one character
IsDigit(c) == c \in 48..57 \/ c \in 1632..1641 \/ c \in {178, 179, 185}

\* c in string.hexdigits
IsHexDigit(c) == c \in 48..57 \/ c \in 65..70 \/ c \in 97..102

\* the value int() gives a character as a digit; 99 when it is none
DigitVal(c) ==
    IF c \in 48..57 THEN c - 48
    ELSE IF c \in 1632..1641 THEN c - 1632
    ELSE IF c \in 97..102 THEN c - 87
    ELSE IF c \in 65..70 THEN c - 55
    ELSE 99

\* str.lower
Lower(s) == [k \in 1..Len(s) |-> IF s[k] \in 65..90 THEN s[k] + 32 ELSE s[k]]

HexChar(n, upper) ==
    IF n < 10 THEN 48 + n ELSE (IF upper THEN 55 ELSE 87) + n

\* f"{b:02X}" and f"{b:02x}"
Hex2(b, upper) == << HexChar(b \div 16, upper), HexChar(b % 16, upper) >>

RECURSIVE Join(_, _)
\* sep.join(parts)
Join(parts, sep) ==
    IF parts = <<>> THEN <<>>
    ELSE IF Len(parts) = 1 THEN parts[1]
    ELSE parts[1] \o sep \o Join(Tail(parts), sep)

RECURSIVE Split(_)
\* str.split(): the maximal runs of characters that are not spaces
Split(s) ==
    IF s = <<>> THEN <<>>
    ELSE IF IsSpace(s[1]) THEN Split(Tail(s))
    ELSE LET stops == {k \in 1..Len(s) : IsSpace(s[k])}
             n == IF stops = {} THEN Len(s) + 1
                  ELSE CHOOSE k \in stops : \A m \in stops : k <= m
         IN  << SubSeq(s, 1, n - 1) >> \o Split(SubSeq(s, n, Len(s)))

StartsWith(s, p) == Len(s) >= Len(p) /\ SubSeq(s, 1, Len(p)) = p

RECURSIVE RemoveAll(_, _)
\* s.replace(p, "")
RemoveAll(s, p) ==
    IF s = <<>> THEN <<>>
    ELSE IF StartsWith(s, p) THEN RemoveAll(SubSeq(s, Len(p) + 1, Len(s)), p)
    ELSE << s[1] >> \o RemoveAll(Tail(s), p)

RECURSIVE Strip(_, _)
\* s.strip(chars)
Strip(s, chars) ==
    IF s = <<>> THEN <<>>
    ELSE IF s[1] \in chars THEN Strip(Tail(s), chars)
    ELSE IF s[Len(s)] \in chars THEN Strip(SubSeq(s, 1, Len(s) - 1), chars)
    ELSE s

\* int(): the digits t2 that follow the sign and the prefix, single
\* underscores allowed between them (and before them after a prefix)
IntBody(neg, pre, t2, base) ==
    LET ds == SelectSeq(t2, LAMBDA c : c # 95)
    IN  IF /\ t2 # <<>>
           /\ t2[Len(t2)] # 95
           /\ (t2[1] # 95 \/ pre)
           /\ \A k \in 1..(Len(t2) - 1) : ~(t2[k] = 95 /\ t2[k + 1] = 95)
           /\ \A k \in 1..Len(t2) : t2[k] = 95 \/ DigitVal(t2[k]) < base
        THEN [ok |-> TRUE, neg |-> neg,
              digits |-> [k \in 1..Len(ds) |-> DigitVal(ds[k])]]
        ELSE [ok |-> FALSE, neg |-> FALSE, digits |-> <<>>]

\* int(): for base 16 an optional 0x prefix before the digits of t1
IntPrefixed(neg, t1, base) ==
    IF base = 16 /\ Len(t1) >= 2 /\ t1[1] = 48 /\ t1[2] \in {88, 120}
    THEN IntBody(neg, TRUE, SubSeq(t1, 3, Len(t1)), base)
    ELSE IntBody(neg, FALSE, t1, base)

\* int(token, base) for base 10 and 16, up to the digits: surrounding spaces
\* dropped, an optional sign, for base 16 an optional 0x prefix, then digits
\* with single underscores between them.  digits holds the digit values,
\* most significant first.
IntDigits(token, base) ==
    LET t0 == Strip(token, Spaces)
    IN  IF t0 # <<>> /\ t0[1] \in {43, 45}
        THEN IntPrefixed(t0[1] = 45, Tail(t0), base)
        ELSE IntPrefixed(FALSE, t0, base)

RECURSIVE ByteRange(_, _, _)
\* the number the digits ds denote in the base, given acc for the digits
\* already read; every number above 255 is reported as 256
ByteRange(ds, base, acc) ==
    IF ds = <<>> THEN acc
    ELSE ByteRange(Tail(ds), base, Min(acc * base + ds[1], 256))

(***************************************************************************)
(* modules/smbios.py: parsing of byte lists.                               *)
(***************************************************************************)
\* a lone token of an even number of hex digits is cut into 0xHH tokens
SplitHexToken(first, token) ==
    IF Len(token) % 2 = 0 /\ token # <<>>
       /\ \A k \in 1..Len(token) : IsHexDigit(token[k])
    THEN [j \in 1..(Len(token) \div 2) |->
            <<48, 120, token[2 * j - 1], token[2 * j]>>]
    ELSE << first >>

LoneToken(first, lower) ==
    SplitHexToken(first, IF StartsWith(lower, <<48, 120>>)
                         THEN SubSeq(lower, 3, Len(lower)) ELSE first)

NormalizedTokens(tokens) ==
    IF tokens = <<>> THEN <<>>
    ELSE IF Len(tokens) = 1 THEN LoneToken(tokens[1], Lower(tokens[1]))
    ELSE tokens

_normalize_byte_tokens(value) ==
    NormalizedTokens(Split([k \in 1..Len(value) |->
                              IF value[k] \in {45, 58, 44} THEN 32
                              ELSE value[k]]))

\* val is <<the byte>>
SingleByte(d, dv, h, hv) ==
    IF d.ok /\ ((~d.neg /\ dv <= 255) \/ (d.neg /\ dv = 0)) THEN Ok(<<dv>>)
    ELSE IF ~h.ok THEN ValueError("invalid literal for int()")
    ELSE IF (~h.neg /\ hv <= 255) \/ (h.neg /\ hv = 0) THEN Ok(<<hv>>)
    ELSE ValueError("out of range (0-255)")

_parse_single_byte(token) ==
    LET d == IntDigits(token, 10)
        h == IntDigits(token, 16)
    IN  SingleByte(d, ByteRange(d.digits, 10, 0), h, ByteRange(h.digits, 16, 0))

\* values holds the result of _parse_single_byte for every token
ParsedBytes(tokens, values, length) ==
    IF tokens = <<>>
    THEN ValueError("Value must contain at least one byte")
    ELSE IF Len(tokens) # length
    THEN ValueError("Expected length byte(s)")
    ELSE IF \E k \in 1..Len(values) : ~values[k].ok
    THEN ValueError("byte token")
    ELSE Ok([k \in 1..Len(values) |-> values[k].val[1]])

ParsedTokens(tokens, length) ==
    ParsedBytes(tokens,
                [k \in 1..Len(tokens) |-> _parse_single_byte(tokens[k])],
                length)

_parse_bytes_string(value, length) ==
    ParsedTokens(_normalize_byte_tokens(value), length)

(***************************************************************************)
(* modules/smbios.py: _decode_field and _encode_field.                     *)
(***************************************************************************)
\* str(uuid.UUID(bytes=b)) for a 16-byte b
UuidStr(b) ==
    LET hex == [k \in 1..32 |->
                  IF k % 2 = 1 THEN HexChar(b[(k + 1) \div 2] \div 16, FALSE)
                  ELSE HexChar(b[k \div 2] % 16, FALSE)]
    IN  SubSeq(hex, 1, 8) \o <<45>> \o SubSeq(hex, 9, 12) \o <<45>>
        \o SubSeq(hex, 13, 16) \o <<45>> \o SubSeq(hex, 17, 20) \o <<45>>
        \o SubSeq(hex, 21, 32)

\* the 16 bytes of 32 hex digits
UuidOfHex(hex, n) ==
    IF Len(hex) # 32 \/ ~n.ok
    THEN ValueError("badly formed hexadecimal UUID string")
    ELSE Ok([k \in 1..16 |->
               16 * (Zeros(32 - Len(n.digits)) \o n.digits)[2 * k - 1]
               + (Zeros(32 - Len(n.digits)) \o n.digits)[2 * k]])

UuidHex(hex) == UuidOfHex(hex, IntDigits(hex, 16))

\* uuid.UUID(value).bytes
UuidParse(value) ==
    UuidHex(RemoveAll(Strip(RemoveAll(RemoveAll(value, <<117, 114, 110, 58>>),
                                      <<117, 117, 105, 100, 58>>),
                            {123, 125}),
                      <<45>>))

\* ":".join(f"{b:02X}" for b in raw)
MacStr(b) == Join([k \in 1..Len(b) |-> Hex2(b[k], TRUE)], <<58>>)

\* " ".join(f"0x{b:02X}" for b in raw)
HexStr(b) == Join([k \in 1..Len(b) |-> <<48, 120>> \o Hex2(b[k], TRUE)], <<32>>)

\* a BCD decode that tests the low nibble only
DecodedDate_low_nibble_only(d) ==
    IF \E k \in 1..Len(d) : d[k] % 16 > 9
    THEN ValueError("Invalid BCD digit in battery date")
    ELSE Ok([k \in 1..(2 * Len(d)) |->
               IF k % 2 = 1 THEN 48 + ((d[(k + 1) \div 2] \div 16) % 16)
               ELSE 48 + (d[k \div 2] % 16)])

\* the bcd_date branch of _decode_field: two digits per byte
DecodedDate(d) ==
    IF \E k \in 1..Len(d) : (d[k] \div 16) % 16 > 9 \/ d[k] % 16 > 9
    THEN ValueError("Invalid BCD digit in battery date")
    ELSE Ok([k \in 1..(2 * Len(d)) |->
               IF k % 2 = 1 THEN 48 + ((d[(k + 1) \div 2] \div 16) % 16)
               ELSE 48 + (d[k \div 2] % 16)])

_decode_field(field, d) ==
    IF field.encoding = "ascii"
    THEN LET nuls == {k \in 1..Len(d) : d[k] = 0}
             n == IF nuls = {} THEN Len(d)
                  ELSE (CHOOSE k \in nuls : \A m \in nuls : k <= m) - 1
         IN  Ok([k \in 1..n |-> IF d[k] > 127 THEN 65533 ELSE d[k]])
    ELSE IF field.encoding = "uuid"
    THEN IF Len(d) # 16
         THEN ValueError("bytes is not a 16-char string")
         ELSE Ok(UuidStr(_swap_uuid_segments(d).val))
    ELSE IF field.encoding = "mac"
    THEN Ok(MacStr(d))
    ELSE IF field.encoding = "bcd_date"
    THEN DecodedDate(d)
    ELSE Ok(HexStr(d))

\* the (bytes, printable) pair _encode_field returns
Encoded(bytes, printable) ==
    [ok |-> TRUE, val |-> bytes, printable |-> printable, err |-> ""]

EncodeError(msg) ==
    [ok |-> FALSE, val |-> <<>>, printable |-> <<>>, err |-> msg]

EncodedUuid(parsed) ==
    IF ~parsed.ok THEN EncodeError(parsed.err)
    ELSE Encoded(_swap_uuid_segments(parsed.val).val, UuidStr(parsed.val))

EncodedBytes(raw, mac) ==
    IF ~raw.ok THEN EncodeError(raw.err)
    ELSE Encoded(raw.val, IF mac THEN MacStr(raw.val) ELSE HexStr(raw.val))

EncodedDate(digits, length) ==
    IF Len(digits) # length * 2
    THEN EncodeError("Expected digits")
    ELSE IF \E k \in 1..Len(digits) : DigitVal(digits[k]) > 9
    THEN EncodeError("invalid literal for int()")
    ELSE Encoded([k \in 1..length |->
                    16 * DigitVal(digits[2 * k - 1]) + DigitVal(digits[2 * k])],
                 digits)

_encode_field(field, value) ==
    IF field.encoding = "ascii"
    THEN IF \E k \in 1..Len(value) : value[k] > 127
         THEN EncodeError("ASCII field cannot encode the given value")
         ELSE IF Len(value) > field.length
         THEN EncodeError("Value too long for field")
         ELSE Encoded(value \o Zeros(field.length - Len(value)), value)
    ELSE IF field.encoding = "uuid"
    THEN EncodedUuid(UuidParse(value))
    ELSE IF field.encoding \in {"mac", "hex"}
    THEN EncodedBytes(_parse_bytes_string(value, field.length),
                      field.encoding = "mac")
    ELSE IF field.encoding = "bcd_date"
    THEN EncodedDate(SelectSeq(value, IsDigit), field.length)
    ELSE EncodeError("Unsupported field encoding")

\* the field catalog, by key
FIELDS ==
    ("system_product_name" :>
         FieldDef("System Product Name", 50, 96, 1, 97, 1, "ascii"))
    @@ ("product_name2" :>
         FieldDef("Product Name2", 50, 96, 2, 97, 2, "ascii"))
    @@ ("system_family" :>
         FieldDef("System Family", 30, 96, 3, 97, 3, "ascii"))
    @@ ("marketing_name2" :>
         FieldDef("Marketing Name2", 30, 96, 4, 97, 4, "ascii"))
    @@ ("uuid" :> FieldDef("UUID", 16, 96, 5, 97, 5, "uuid"))
    @@ ("serial_number_system" :>
         FieldDef("Serial Number (System)", 22, 96, 6, 97, 6, "ascii"))
    @@ ("serial_number_mb" :>
         FieldDef("Serial Number (MB)", 22, 96, 7, 97, 7, "ascii"))
    @@ ("asset_tag" :> FieldDef("Asset Tag", 22, 96, 8, 97, 8, "ascii"))
    @@ ("project_define" :>
         FieldDef("Project Define", 3, 96, 9, 97, 9, "ascii"))
    @@ ("country_type" :> FieldDef("Country Type", 1, 96, 10, 97, 10, "hex"))
    @@ ("project_id" :> FieldDef("Project ID", 1, 96, 11, 97, 11, "hex"))
    @@ ("manufacture_name" :>
         FieldDef("Manufacture Name", 16, 96, 12, 97, 12, "ascii"))
    @@ ("shipping_region" :>
         FieldDef("Shipping Region", 1, 96, 13, 97, 13, "hex"))
    @@ ("secure_boot" :> FieldDef("Secure Boot", 1, 96, 14, 97, 14, "hex"))
    @@ ("uefi_boot_type" :>
         FieldDef("UEFI Boot Type", 1, 96, 15, 97, 15, "hex"))
    @@ ("vmd_controller" :>
         FieldDef("VMD Controller", 1, 96, 16, 97, 16, "hex"))
    @@ ("vpro_sku" :> FieldDef("Vpro SKU", 1, 96, 17, 97, 17, "hex"))
    @@ ("os_type" :> FieldDef("OS Type", 1, 96, 18, 97, 18, "hex"))
    @@ ("mac_address" :> FieldDef("MAC Address", 6, 96, 19, 97, 19, "mac"))
    @@ ("touch_pad" :> FieldDef("Touch Pad", 1, 96, 20, 97, 20, "hex"))
    @@ ("keyboard_backlight_enable" :>
         FieldDef("Keyboard Backlight Enable", 1, 96, 21, 97, 21, "hex"))
    @@ ("kb_matrix_type" :>
         FieldDef("KB Matrix Type", 1, 96, 22, 97, 22, "hex"))
    @@ ("copilotkey_type" :>
         FieldDef("Copilotkey Type", 1, 96, 23, 97, 23, "hex"))
    @@ ("mic_type" :> FieldDef("MIC Type", 1, 96, 24, 97, 24, "hex"))
    @@ ("computrace" :> FieldDef("Computrace", 1, 96, 25, 97, 25, "hex"))
    @@ ("custom_logo" :> FieldDef("Custom Logo", 1, 96, 26, 97, 26, "hex"))
    @@ ("battery_first_use_date" :>
         FieldDef("Battery First Use Date", 4, 96, 27, 97, 27, "bcd_date"))
    @@ ("mfg_force_boot" :>
         FieldDef("MFG Force Boot", 1, 96, 28, 97, 28, "hex"))
    @@ ("ownership_tag" :>
         FieldDef("Ownership Tag", 50, 96, 29, 97, 29, "ascii"))
    @@ ("load_default" :> FieldDef("Load Default", 1, 96, 30, 97, 30, "hex"))
    @@ ("sku_number" :> FieldDef("SKU Number", 16, 96, 31, 97, 31, "ascii"))

\* the default texts of the simulator, by key
_SMBIOS_DEFAULTS ==
    ("system_product_name" :>   \* "XPS-9710-BOM123"
         <<88, 80, 83, 45, 57, 55, 49, 48, 45, 66, 79, 77, 49, 50, 51>>)
    @@ ("product_name2" :>   \* "XPS-9710-RevB"
         <<88, 80, 83, 45, 57, 55, 49, 48, 45, 82, 101, 118, 66>>)
    @@ ("system_family" :>   \* "XPS Performance Series"
         <<88, 80, 83, 32, 80, 101, 114, 102, 111, 114, 109, 97, 110, 99,
         101, 32, 83, 101, 114, 105, 101, 115>>)
    @@ ("marketing_name2" :>   \* "XPS Marketing Name R2"
         <<88, 80, 83, 32, 77, 97, 114, 107, 101, 116, 105, 110, 103, 32, 78,
         97, 109, 101, 32, 82, 50>>)
    @@ ("uuid" :>   \* "12345678-90ab-cdef-1234-567890abcdef"
         <<49, 50, 51, 52, 53, 54, 55, 56, 45, 57, 48, 97, 98, 45, 99, 100,
         101, 102, 45, 49, 50, 51, 52, 45, 53, 54, 55, 56, 57, 48, 97, 98,
         99, 100, 101, 102>>)
    @@ ("serial_number_system" :>   \* "SYSNMB0001234567890"
         <<83, 89, 83, 78, 77, 66, 48, 48, 48, 49, 50, 51, 52, 53, 54, 55,
         56, 57, 48>>)
    @@ ("serial_number_mb" :>   \* "MBNMB0001234567890"
         <<77, 66, 78, 77, 66, 48, 48, 48, 49, 50, 51, 52, 53, 54, 55, 56,
         57, 48>>)
    @@ ("asset_tag" :>   \* "Asset-Tag-001"
         <<65, 115, 115, 101, 116, 45, 84, 97, 103, 45, 48, 48, 49>>)
    @@ ("project_define" :>   \* "P01"
         <<80, 48, 49>>)
    @@ ("country_type" :>   \* "0x01"
         <<48, 120, 48, 49>>)
    @@ ("project_id" :>   \* "0x02"
         <<48, 120, 48, 50>>)
    @@ ("manufacture_name" :>   \* "ExampleMFG"
         <<69, 120, 97, 109, 112, 108, 101, 77, 70, 71>>)
    @@ ("shipping_region" :>   \* "0x21"
         <<48, 120, 50, 49>>)
    @@ ("secure_boot" :>   \* "0x01"
         <<48, 120, 48, 49>>)
    @@ ("uefi_boot_type" :>   \* "0x02"
         <<48, 120, 48, 50>>)
    @@ ("vmd_controller" :>   \* "0x01"
         <<48, 120, 48, 49>>)
    @@ ("vpro_sku" :>   \* "0x01"
         <<48, 120, 48, 49>>)
    @@ ("os_type" :>   \* "0x02"
         <<48, 120, 48, 50>>)
    @@ ("mac_address" :>   \* "AA:BB:CC:DD:EE:FF"
         <<65, 65, 58, 66, 66, 58, 67, 67, 58, 68, 68, 58, 69, 69, 58, 70,
         70>>)
    @@ ("touch_pad" :>   \* "0x01"
         <<48, 120, 48, 49>>)
    @@ ("keyboard_backlight_enable" :>   \* "0x01"
         <<48, 120, 48, 49>>)
    @@ ("kb_matrix_type" :>   \* "0x02"
         <<48, 120, 48, 50>>)
    @@ ("copilotkey_type" :>   \* "0x01"
         <<48, 120, 48, 49>>)
    @@ ("mic_type" :>   \* "0x01"
         <<48, 120, 48, 49>>)
    @@ ("computrace" :>   \* "0x01"
         <<48, 120, 48, 49>>)
    @@ ("custom_logo" :>   \* "0x01"
         <<48, 120, 48, 49>>)
    @@ ("battery_first_use_date" :>   \* "0x20 0x24 0x03 0x15"
         <<48, 120, 50, 48, 32, 48, 120, 50, 52, 32, 48, 120, 48, 51, 32, 48,
         120, 49, 53>>)
    @@ ("mfg_force_boot" :>   \* "0x00"
         <<48, 120, 48, 48>>)
    @@ ("ownership_tag" :>   \* "Demo Ownership Tag"
         <<68, 101, 109, 111, 32, 79, 119, 110, 101, 114, 115, 104, 105, 112,
         32, 84, 97, 103>>)
    @@ ("load_default" :>   \* "0x01"
         <<48, 120, 48, 49>>)

(***************************************************************************)
(* ecsim.py: the configuration-field store.                                *)
(***************************************************************************)
\* text is Optional: the default text of the key, None when it has none
_make_smbios_payload(field, text) ==
    IF text = None THEN Zeros(field.length)
    ELSE LET e == _encode_field(field, text[1])
         IN  IF ~e.ok THEN Zeros(field.length) ELSE e.val

\* the lookup tables _init_smbios_defaults builds: sub-command -> field
_smbios_by_read ==
    LET ByRead(F) ==
            [sub \in {F[k].read_sub : k \in DOMAIN F} |->
                F[CHOOSE k \in DOMAIN F : F[k].read_sub = sub]]
    IN  ByRead(FIELDS)

_smbios_by_write ==
    LET ByWrite(F) ==
            [sub \in {F[k].write_sub : k \in DOMAIN F} |->
                F[CHOOSE k \in DOMAIN F : F[k].write_sub = sub]]
    IN  ByWrite(FIELDS)

\* the store _init_smbios_defaults builds: read sub-command -> bytes
_init_smbios_defaults ==
    [sub \in {FIELDS[k].read_sub : k \in DOMAIN FIELDS} |->
        LET key == CHOOSE k \in DOMAIN FIELDS : FIELDS[k].read_sub = sub
        IN  _make_smbios_payload(FIELDS[key],
                IF key \in DOMAIN _SMBIOS_DEFAULTS
                THEN Some(_SMBIOS_DEFAULTS[key]) ELSE None)]


\* "SimEC v1.0"
SimVersion == <<83, 105, 109, 69, 67, 32, 118, 49, 46, 48>>

InitTemps ==
    (1 :> 450) @@ (2 :> 420) @@ (3 :> 480) @@ (4 :> 300) @@ (5 :> 305) @@
    (6 :> 290) @@ (7 :> 295)

InitBattInfo ==
    (1 :> _le16(0)) @@ (2 :> _le16(1)) @@ (3 :> _le16(3000)) @@
    (4 :> _le16(11400)) @@ (5 :> _le16(1500)) @@ (6 :> _le16(1200)) @@
    (7 :> _le16(5)) @@ (8 :> _le16(80)) @@ (9 :> _le16(78)) @@
    (10 :> _le16(4200)) @@ (11 :> _le16(5200)) @@ (12 :> _le16(2000)) @@
    (13 :> _le16(12600)) @@ (14 :> _le16(0)) @@ (15 :> _le16(120)) @@
    (16 :> _le16(5600)) @@ (17 :> _le16(11400)) @@ (18 :> _le16(4660)) @@
    (19 :> _le16(24097)) @@ (20 :> _le16(1056)) @@
    (21 :> _ascii_fixed(<<83, 105, 109, 66, 97, 116, 116, 101, 114, 121>>, 14)) @@
    (22 :> _ascii_fixed(<<83, 105, 109, 68, 101, 118, 105, 99, 101>>, 14)) @@
    (23 :> _ascii_fixed(<<76, 105, 45, 73, 111, 110>>, 6)) @@
    (24 :> _ascii_fixed(<<83, 105, 109, 68, 97, 116, 97>>, 14)) @@
    (25 :> _le16(2850)) @@ (26 :> _le16(2850)) @@ (27 :> _le16(2850)) @@
    (28 :> _le16(2850)) @@ (29 :> _le16(120)) @@ (30 :> _le16(110)) @@
    (31 :> _le16(80))

\* EcSimulator.__init__ (the two sub-command lookup tables never change and
\* stay the operators _smbios_by_read and _smbios_by_write).
\* _out_of: the key of the batt_info entry whose list object self._out is,
\* None while self._out is a list of its own
EcSimulator_init ==
    [ _current_cmd |-> None, _data |-> <<>>, _out |-> <<>>,
      _out_of |-> None,
      _responded |-> FALSE,
      version |-> SimVersion,
      led_power |-> FALSE, led_charge |-> FALSE,
      fan_mode |-> "auto", fan_duty |-> 128, fan_rpm |-> 2500,
      kb_backlight_on |-> FALSE, kb_backlight_level |-> 0,
      kbtype |-> [brand |-> Some(0), type |-> None, category |-> None,
                  size |-> None],
      batt_mode |-> "auto", batt_charging |-> FALSE,
      batt_discharging |-> FALSE,
      temps |-> InitTemps, batt_info |-> InitBattInfo,
      _smbios_store |-> _init_smbios_defaults,
      _smbios_length_override |-> [sub \in {} |-> 0] ]

\* the fields of the simulator that are simulated device state
DeviceFields ==
    { "version", "led_power", "led_charge", "fan_mode", "fan_duty", "fan_rpm",
      "kb_backlight_on", "kb_backlight_level", "kbtype", "batt_mode",
      "batt_charging", "batt_discharging", "temps", "batt_info",
      "_smbios_store" }

\* all but the transaction book-keeping
StateFields == DeviceFields \cup {"_smbios_length_override"}

\* the fields in which simulator objects s and t differ
Changed(s, t) == {f \in StateFields : s[f] # t[f]}

_effective_length(s, field) ==
    IF field.read_sub \in DOMAIN s._smbios_length_override
    THEN s._smbios_length_override[field.read_sub]
    ELSE field.length

\* an override that records the length and leaves the stored buffer alone
EcSimulator_override_smbios_field_length_no_resize(s, read_sub, length) ==
    IF length <= 0
    THEN [sim |-> s, raised |-> TRUE]
    ELSE [sim |-> [s EXCEPT !._smbios_length_override =
                                (read_sub :> length) @@ @],
          raised |-> FALSE]

\* raised: the call ended in ValueError
EcSimulator_override_smbios_field_length(s, read_sub, length) ==
    IF length <= 0
    THEN [sim |-> s, raised |-> TRUE]
    ELSE LET stored == IF read_sub \in DOMAIN s._smbios_store
                       THEN s._smbios_store[read_sub] ELSE <<>>
             fitted == IF Len(stored) < length
                       THEN stored \o Zeros(length - Len(stored))
                       ELSE IF Len(stored) > length
                       THEN SubSeq(stored, 1, length)
                       ELSE stored
         IN  [sim |-> [s EXCEPT !._smbios_length_override =
                                    (read_sub :> length) @@ @,
                                !._smbios_store = (read_sub :> fitted) @@ @],
              raised |-> FALSE]

(***************************************************************************)
(* EcSimulator: the per-command handlers.  Each maps the simulator object  *)
(* to the simulator object after the handler has run.                      *)
(***************************************************************************)
\* a write handler that forgets to drop the sub-command byte: self._data
_resp_smbios_write_keeps_sub(s) ==
    IF s._data = <<>>
    THEN [s EXCEPT !._out = <<>>]
    ELSE LET sub == s._data[1]
         IN  IF sub \notin DOMAIN _smbios_by_write
             THEN [s EXCEPT !._out = <<>>]
             ELSE LET field == _smbios_by_write[sub]
                      length == _effective_length(s, field)
                      p0 == s._data
                      p1 == IF Len(p0) < length
                            THEN p0 \o Zeros(length - Len(p0)) ELSE p0
                      payload == IF Len(p1) > length
                                 THEN SubSeq(p1, 1, length) ELSE p1
                  IN  [s EXCEPT !._smbios_store =
                                    (field.read_sub :>
                                        [k \in 1..Len(payload) |->
                                            payload[k] % 256]) @@ @,
                                !._out = <<>>]

\* a write handler that pads a short payload but stores a long one whole
_resp_smbios_write_no_cut(s) ==
    IF s._data = <<>>
    THEN [s EXCEPT !._out = <<>>]
    ELSE LET sub == s._data[1]
         IN  IF sub \notin DOMAIN _smbios_by_write
             THEN [s EXCEPT !._out = <<>>]
             ELSE LET Store(field, payload) ==
                          [s EXCEPT !._smbios_store =
                                        (field.read_sub :>
                                            [k \in 1..Len(payload) |->
                                                payload[k] % 256]) @@ @,
                                    !._out = <<>>]
                      Pad(field, length, p0) ==
                          Store(field,
                                IF Len(p0) < length
                                THEN p0 \o Zeros(length - Len(p0)) ELSE p0)
                      Write(field) ==
                          Pad(field, _effective_length(s, field), Tail(s._data))
                  IN  Write(_smbios_by_write[sub])

\* a write handler that also forgets the written field's length override
_resp_smbios_write_drops_override(s) ==
    IF s._data = <<>>
    THEN [s EXCEPT !._out = <<>>]
    ELSE LET sub == s._data[1]
         IN  IF sub \notin DOMAIN _smbios_by_write
             THEN [s EXCEPT !._out = <<>>]
             ELSE LET Store(field, payload) ==
                          [s EXCEPT !._smbios_store =
                                        (field.read_sub :>
                                            [k \in 1..Len(payload) |->
                                                payload[k] % 256]) @@ @,
                                    !._smbios_length_override =
                                        [k \in DOMAIN @ \ {field.read_sub}
                                            |-> @[k]],
                                    !._out = <<>>]
                      Cut(field, length, p1) ==
                          Store(field, IF Len(p1) > length
                                       THEN SubSeq(p1, 1, length) ELSE p1)
                      Pad(field, length, p0) ==
                          Cut(field, length,
                              IF Len(p0) < length
                              THEN p0 \o Zeros(length - Len(p0)) ELSE p0)
                      Write(field) ==
                          Pad(field, _effective_length(s, field), Tail(s._data))
                  IN  Write(_smbios_by_write[sub])

\* 0x60
_resp_smbios_write(s) ==
    IF s._data = <<>>
    THEN [s EXCEPT !._out = <<>>]
    ELSE LET sub == s._data[1]
         IN  IF sub \notin DOMAIN _smbios_by_write
             THEN [s EXCEPT !._out = <<>>]
             ELSE LET Store(field, payload) ==
                          [s EXCEPT !._smbios_store =
                                        (field.read_sub :>
                                            [k \in 1..Len(payload) |->
                                                payload[k] % 256]) @@ @,
                                    !._out = <<>>]
                      Cut(field, length, p1) ==
                          Store(field, IF Len(p1) > length
                                       THEN SubSeq(p1, 1, length) ELSE p1)
                      Pad(field, length, p0) ==
                          Cut(field, length,
                              IF Len(p0) < length
                              THEN p0 \o Zeros(length - Len(p0)) ELSE p0)
                      Write(field) ==
                          Pad(field, _effective_length(s, field), Tail(s._data))
                  IN  Write(_smbios_by_write[sub])

\* 0x61
_resp_smbios_read(s) ==
    IF s._data = <<>>
    THEN [s EXCEPT !._out = <<>>]
    ELSE LET sub == s._data[1]
         IN  IF sub \notin DOMAIN _smbios_by_read
             THEN [s EXCEPT !._out = <<>>]
             ELSE LET missing == sub \notin DOMAIN s._smbios_store
                      Fit(length, stored) ==
                          [s EXCEPT !._smbios_store =
                                        IF missing THEN (sub :> stored) @@ @
                                        ELSE @,
                                    !._out =
                                        IF Len(stored) < length
                                        THEN stored \o
                                             Zeros(length - Len(stored))
                                        ELSE IF Len(stored) > length
                                        THEN SubSeq(stored, 1, length)
                                        ELSE stored]
                      Read(length) ==
                          Fit(length, IF missing THEN Zeros(length)
                                      ELSE s._smbios_store[sub])
                  IN  Read(_effective_length(s, _smbios_by_read[sub]))

\* 0x48
_resp_ecversion(s) ==
    IF s._data = <<>> \/ s._data[1] # 1
    THEN [s EXCEPT !._out = <<>>]
    ELSE [s EXCEPT !._out = _ascii_fixed(s.version, 20)]

\* a LED handler that acknowledges with one status byte
_resp_led_acks(s) ==
    IF Len(s._data) < 2
    THEN [s EXCEPT !._out = <<>>]
    ELSE LET which == s._data[1]
             val   == s._data[2]
         IN  IF which = 1
             THEN [s EXCEPT !.led_power = (val # 0), !._out = <<0>>]
             ELSE IF which = 2
             THEN [s EXCEPT !.led_charge = (val # 0), !._out = <<0>>]
             ELSE [s EXCEPT !._out = <<0>>]

\* 0x10
_resp_led(s) ==
    IF Len(s._data) < 2
    THEN [s EXCEPT !._out = <<>>]
    ELSE LET which == s._data[1]
             val   == s._data[2]
         IN  IF which = 1
             THEN [s EXCEPT !.led_power = (val # 0), !._out = <<>>]
             ELSE IF which = 2
             THEN [s EXCEPT !.led_charge = (val # 0), !._out = <<>>]
             ELSE [s EXCEPT !._out = <<>>]

\* a fan handler that takes a duty in debug mode only
_resp_fan_duty_debug_only(s) ==
    IF s._data = <<>>
    THEN [s EXCEPT !._out = <<>>]
    ELSE LET sub == s._data[1]
             n   == Len(s._data)
         IN  IF sub = 1 /\ n >= 2
             THEN [s EXCEPT !.fan_mode = IF s._data[2] = 1 THEN "auto" ELSE "debug",
                            !._out = <<>>]
             ELSE IF sub = 2 /\ n >= 3
             THEN LET duty == Max(0, Min(255, s._data[3]))
                  IN  IF s.fan_mode = "debug"
                      THEN [s EXCEPT !.fan_duty = duty, !.fan_rpm = duty * 20,
                                     !._out = <<>>]
                      ELSE [s EXCEPT !._out = <<>>]
             ELSE IF sub = 3 /\ n >= 4
             THEN LET rpm == s._data[3] + 256 * s._data[4]
                  IN  [s EXCEPT !.fan_rpm = Max(0, Min(65535, rpm)),
                                !._out = <<>>]
             ELSE IF sub = 4 /\ n >= 2 /\ s._data[2] = 1
             THEN [s EXCEPT !._out = << s.fan_duty % 256 >>]
             ELSE IF sub = 5 /\ n >= 2 /\ s._data[2] = 2
             THEN [s EXCEPT !._out = _le16(s.fan_rpm)]
             ELSE [s EXCEPT !._out = <<>>]

\* 0x20
_resp_fan(s) ==
    IF s._data = <<>>
    THEN [s EXCEPT !._out = <<>>]
    ELSE LET sub == s._data[1]
             n   == Len(s._data)
         IN  IF sub = 1 /\ n >= 2
             THEN [s EXCEPT !.fan_mode = IF s._data[2] = 1 THEN "auto" ELSE "debug",
                            !._out = <<>>]
             ELSE IF sub = 2 /\ n >= 3
             THEN LET duty == Max(0, Min(255, s._data[3]))
                  IN  [s EXCEPT !.fan_duty = duty,
                                !.fan_rpm = IF s.fan_mode = "debug"
                                            THEN duty * 20 ELSE @,
                                !._out = <<>>]
             ELSE IF sub = 3 /\ n >= 4
             THEN LET rpm == s._data[3] + 256 * s._data[4]
                  IN  [s EXCEPT !.fan_rpm = Max(0, Min(65535, rpm)),
                                !._out = <<>>]
             ELSE IF sub = 4 /\ n >= 2 /\ s._data[2] = 1
             THEN [s EXCEPT !._out = << s.fan_duty % 256 >>]
             ELSE IF sub = 5 /\ n >= 2 /\ s._data[2] = 2
             THEN [s EXCEPT !._out = _le16(s.fan_rpm)]
             ELSE [s EXCEPT !._out = <<>>]

\* 0x28
_resp_temp(s) ==
    IF s._data = <<>>
    THEN [s EXCEPT !._out = <<>>]
    ELSE LET sensor == s._data[1]
             val    == IF sensor \in DOMAIN s.temps THEN s.temps[sensor] ELSE 0
         IN  [s EXCEPT !._out = _le16(val)]

\* a battery handler whose mode branch assigns the fan's mode attribute
_resp_batt_ctrl_sets_fan_mode(s) ==
    IF s._data = <<>>
    THEN [s EXCEPT !._out = <<>>]
    ELSE LET sub == s._data[1]
             n   == Len(s._data)
         IN  IF sub = 1 /\ n >= 2
             THEN [s EXCEPT !.fan_mode = IF s._data[2] = 1 THEN "auto" ELSE "debug",
                            !._out = <<>>]
             ELSE IF sub = 2 /\ n >= 2 /\ s._data[2] = 1
             THEN [s EXCEPT !.batt_charging = TRUE, !.batt_discharging = FALSE,
                            !._out = <<>>]
             ELSE IF sub = 3 /\ n >= 2 /\ s._data[2] = 1
             THEN [s EXCEPT !.batt_discharging = TRUE, !.batt_charging = FALSE,
                            !._out = <<>>]
             ELSE [s EXCEPT !._out = <<>>]

\* a battery handler that sets one flag and leaves the other as it was
_resp_batt_ctrl_keeps_other_flag(s) ==
    IF s._data = <<>>
    THEN [s EXCEPT !._out = <<>>]
    ELSE LET sub == s._data[1]
             n   == Len(s._data)
         IN  IF sub = 1 /\ n >= 2
             THEN [s EXCEPT !.batt_mode = IF s._data[2] = 1 THEN "auto" ELSE "debug",
                            !._out = <<>>]
             ELSE IF sub = 2 /\ n >= 2 /\ s._data[2] = 1
             THEN [s EXCEPT !.batt_charging = TRUE, !._out = <<>>]
             ELSE IF sub = 3 /\ n >= 2 /\ s._data[2] = 1
             THEN [s EXCEPT !.batt_discharging = TRUE, !._out = <<>>]
             ELSE [s EXCEPT !._out = <<>>]

\* 0x30
_resp_batt_ctrl(s) ==
    IF s._data = <<>>
    THEN [s EXCEPT !._out = <<>>]
    ELSE LET sub == s._data[1]
             n   == Len(s._data)
         IN  IF sub = 1 /\ n >= 2
             THEN [s EXCEPT !.batt_mode = IF s._data[2] = 1 THEN "auto" ELSE "debug",
                            !._out = <<>>]
             ELSE IF sub = 2 /\ n >= 2 /\ s._data[2] = 1
             THEN [s EXCEPT !.batt_charging = TRUE, !.batt_discharging = FALSE,
                            !._out = <<>>]
             ELSE IF sub = 3 /\ n >= 2 /\ s._data[2] = 1
             THEN [s EXCEPT !.batt_discharging = TRUE, !.batt_charging = FALSE,
                            !._out = <<>>]
             ELSE [s EXCEPT !._out = <<>>]

\* a handler that queues the stored list itself:
\* self._out = self.batt_info.get(sub, [])
_resp_batt_info_shares(s) ==
    IF s._data = <<>>
    THEN [s EXCEPT !._out = <<>>]
    ELSE LET sub == s._data[1]
         IN  IF sub \in DOMAIN s.batt_info
             THEN [s EXCEPT !._out = s.batt_info[sub], !._out_of = Some(sub)]
             ELSE [s EXCEPT !._out = <<>>]

\* 0x31: self._out = list(self.batt_info.get(sub, [])), a copy
_resp_batt_info(s) ==
    IF s._data = <<>>
    THEN [s EXCEPT !._out = <<>>]
    ELSE LET sub == s._data[1]
         IN  [s EXCEPT !._out = IF sub \in DOMAIN s.batt_info
                                THEN s.batt_info[sub] ELSE <<>>,
                       !._out_of = None]

\* 0x40
_resp_kblight(s) ==
    IF s._data = <<>>
    THEN [s EXCEPT !._out = <<>>]
    ELSE LET sub == s._data[1]
         IN  IF sub = 1
             THEN [s EXCEPT !.kb_backlight_on = TRUE, !._out = <<>>]
             ELSE IF sub = 2
             THEN [s EXCEPT !.kb_backlight_on = FALSE, !._out = <<>>]
             ELSE IF sub = 3 /\ Len(s._data) >= 2
             THEN LET level == Max(0, Min(3, s._data[2]))
                  IN  [s EXCEPT !.kb_backlight_level = level,
                                !.kb_backlight_on = (level > 0),
                                !._out = <<>>]
             ELSE [s EXCEPT !._out = <<>>]

\* the keyboard-type handler; _generate_response has no branch that calls it
_resp_kbtype(s) ==
    IF s._data = <<>>
    THEN [s EXCEPT !._out = <<>>]
    ELSE LET n == Len(s._data)
         IN  IF n = 1
             \* self._data[1] raises IndexError after two of the assignments
             THEN [s EXCEPT !.kbtype.brand = Some(s._data[1]),
                            !.kbtype.type = None]
             ELSE IF n = 2
             THEN [s EXCEPT !.kbtype = [brand |-> Some(s._data[1]),
                                        type |-> Some(s._data[2]),
                                        category |-> None, size |-> None],
                            !._out = <<>>]
             ELSE [s EXCEPT !.kbtype =
                                [brand |-> Some(s._data[1]),
                                 type |-> None,
                                 category |-> Some(s._data[2]),
                                 size |-> IF n >= 3 THEN Some(s._data[3])
                                          ELSE None],
                            !._out = <<>>]

\* a dispatch with a branch for the keyboard-type command 0x50
_generate_response_kbtype(s) ==
    IF s._current_cmd = None THEN s
    ELSE LET c == s._current_cmd[1]
         IN  CASE c = 72 -> _resp_ecversion(s)
               [] c = 16 -> _resp_led(s)
               [] c = 32 -> _resp_fan(s)
               [] c = 40 -> _resp_temp(s)
               [] c = 48 -> _resp_batt_ctrl(s)
               [] c = 49 -> _resp_batt_info(s)
               [] c = 64 -> _resp_kblight(s)
               [] c = 80 -> _resp_kbtype(s)
               [] c = 96 -> _resp_smbios_write(s)
               [] c = 97 -> _resp_smbios_read(s)
               [] OTHER  -> [s EXCEPT !._out = <<>>]

\* Dispatch on the stored command byte.
_generate_response(s) ==
    IF s._current_cmd = None THEN s
    ELSE LET c == s._current_cmd[1]
         IN  CASE c = 72 -> _resp_ecversion(s)
               [] c = 16 -> _resp_led(s)
               [] c = 32 -> _resp_fan(s)
               [] c = 40 -> _resp_temp(s)
               [] c = 48 -> _resp_batt_ctrl(s)
               [] c = 49 -> _resp_batt_info(s)
               [] c = 64 -> _resp_kblight(s)
               [] c = 96 -> _resp_smbios_write(s)
               [] c = 97 -> _resp_smbios_read(s)
               [] OTHER  -> [s EXCEPT !._out = <<>>]

(***************************************************************************)
(* EcSimulator: the API used by txrx().                                    *)
(***************************************************************************)
\* a write_command that leaves the pending output buffer alone
EcSimulator_write_command_keeps_out(s, c) ==
    [s EXCEPT !._current_cmd = Some(c % 256), !._data = <<>>,
              !._responded = FALSE]

\* a write_command that first runs the handler of a transaction nobody read
EcSimulator_write_command_flushes(s, c) ==
    LET Start(s1) ==
            [s1 EXCEPT !._current_cmd = Some(c % 256), !._data = <<>>,
                       !._out = <<>>, !._out_of = None,
                       !._responded = FALSE]
    IN  Start(IF s._responded THEN s ELSE _generate_response(s))

EcSimulator_write_command(s, c) ==
    [s EXCEPT !._current_cmd = Some(c % 256), !._data = <<>>, !._out = <<>>,
              !._out_of = None, !._responded = FALSE]

\* a write_data that runs the handler on every byte that arrives
EcSimulator_write_data_dispatches(s, b) ==
    [_generate_response([s EXCEPT !._data = Append(@, b % 256)])
        EXCEPT !._out = s._out]

\* a write_data that stores the value as it came: self._data.append(b)
EcSimulator_write_data_unmasked(s, b) ==
    [s EXCEPT !._data = Append(@, b)]

EcSimulator_write_data(s, b) ==
    [s EXCEPT !._data = Append(@, b % 256)]

\* a read_byte that takes the newest byte: self._out.pop()
EcSimulator_read_byte_pop_last(s, timeout_s) ==
    LET first == (s._out = <<>> /\ ~s._responded)
        s1 == IF first
              THEN [_generate_response(s) EXCEPT !._responded = TRUE]
              ELSE s
        n  == Len(s1._out)
    IN  IF s1._out = <<>>
        THEN [sim |-> s1, ret |-> None, ran |-> first, resp |-> s1._out]
        ELSE [sim |-> [s1 EXCEPT !._out = SubSeq(@, 1, n - 1)],
              ret |-> Some(s1._out[n]), ran |-> first, resp |-> s1._out]

\* a read_byte that builds the response again whenever the buffer is empty
EcSimulator_read_byte_regenerates(s, timeout_s) ==
    LET first == (s._out = <<>>)
        s1 == IF first
              THEN [_generate_response(s) EXCEPT !._responded = TRUE]
              ELSE s
    IN  IF s1._out = <<>>
        THEN [sim |-> s1, ret |-> None, ran |-> first, resp |-> s1._out]
        ELSE [sim |-> [s1 EXCEPT !._out = Tail(@)],
              ret |-> Some(Head(s1._out)), ran |-> first, resp |-> s1._out]

\* read_byte(timeout_s).  The poll loop waits on self._out, which nothing
\* fills while it waits: an empty buffer ends in TimeoutError (for every
\* finite timeout_s), a non-empty one in pop(0), which shortens the list
\* object self._out is.
\* ret: None for TimeoutError, else the byte; ran: _generate_response ran in
\* this call; resp: self._out as the call found or built it, before the pop.
EcSimulator_read_byte(s, timeout_s) ==
    LET first == (s._out = <<>> /\ ~s._responded)
        Pop(s1) ==
            IF s1._out = <<>>
            THEN [sim |-> s1, ret |-> None, ran |-> first, resp |-> s1._out]
            ELSE [sim |-> [s1 EXCEPT !._out = Tail(@),
                                     !.batt_info =
                                         IF s1._out_of = None THEN @
                                         ELSE (s1._out_of[1] :> Tail(s1._out))
                                              @@ @],
                  ret |-> Some(Head(s1._out)), ran |-> first,
                  resp |-> s1._out]
    IN  Pop(IF first
            THEN [_generate_response(s) EXCEPT !._responded = TRUE]
            ELSE s)

(***************************************************************************)
(* EcIo: the hardware transport.  hw.obf holds the bytes the EC has ready  *)
(* for the data port, oldest first; status bit 0x01 (OBF) is set while it  *)
(* is not empty.  What the EC does with the bytes written to it is the     *)
(* EC's own business (action EcProduce).                                   *)
(***************************************************************************)
EcIo_init == [obf |-> <<>>]

EcIo_status(h) == IF h.obf # <<>> THEN 1 ELSE 0

\* The poll loop runs while perf_counter() - t0 < timeout_s: no poll at all
\* for timeout_s <= 0, else True as soon as a poll sees bit 0x01.  A byte the
\* EC produces while the loop polls is a byte EcProduce queued before it.
EcIo_wait_obf_set(h, timeout_s) ==
    timeout_s > 0 /\ (EcIo_status(h) % 2) # 0

EcIo_write_command(h, c) == h

EcIo_write_data(h, b) == h

EcIo_read_byte(h, timeout_s) ==
    IF ~EcIo_wait_obf_set(h, timeout_s)
    THEN [hw |-> h, ret |-> None]
    ELSE [hw |-> [h EXCEPT !.obf = Tail(@)], ret |-> Some(Head(h.obf))]

(***************************************************************************)
(* txrx: length reconciliation (the code after the drain loop).            *)
(***************************************************************************)
\* Python's seq[:n]
SlicePrefix(s, n) ==
    IF n >= 0 THEN SubSeq(s, 1, Min(n, Len(s)))
    ELSE SubSeq(s, 1, Max(Len(s) + n, 0))

Return(v) == [kind |-> "return", value |-> v, reason |-> ""]
Raise(reason) == [kind |-> "raise", value |-> <<>>, reason |-> reason]
NoResult == [kind |-> "none", value |-> <<>>, reason |-> ""]

\* a reconciliation that forgets to truncate a longer response
Reconcile_no_truncate(o, e, to) ==
    IF e # None
    THEN IF Len(o) > e[1]
         THEN Return(o)
         ELSE IF Len(o) < e[1] /\ e[1] > 0
         THEN Raise(IF ~to THEN "response ended before expected length"
                    ELSE "response timed out")
         ELSE Return(SlicePrefix(o, e[1]))
    ELSE Return(o)

\* a reconciliation that hands back a short response instead of raising
Reconcile_no_raise(o, e, to) ==
    IF e # None THEN Return(SlicePrefix(o, e[1])) ELSE Return(o)

\* a reconciliation that reads a missing expect_len as "expect nothing"
Reconcile_none_as_zero(o, e, to) ==
    LET n == IF e = None THEN 0 ELSE e[1]
    IN  IF Len(o) > n
        THEN Return(SlicePrefix(o, n))
        ELSE IF Len(o) < n /\ n > 0
        THEN Raise(IF ~to THEN "response ended before expected length"
                   ELSE "response timed out")
        ELSE Return(SlicePrefix(o, n))

\* a reconciliation that raises on every length mismatch
Reconcile_strict(o, e, to) ==
    IF e # None
    THEN IF Len(o) # e[1]
         THEN Raise(IF ~to THEN "response ended before expected length"
                    ELSE "response timed out")
         ELSE Return(SlicePrefix(o, e[1]))
    ELSE Return(o)

Reconcile(o, e, to) ==
    IF e # None
    THEN IF Len(o) > e[1]
         THEN Return(SlicePrefix(o, e[1]))
         ELSE IF Len(o) < e[1] /\ e[1] > 0
         THEN Raise(IF ~to THEN "response ended before expected length"
                    ELSE "response timed out")
         ELSE Return(SlicePrefix(o, e[1]))
    ELSE Return(o)

\* a drain loop that only a read timeout ends: while True
DrainContinues_forever(el, overall) == TRUE

\* while time.perf_counter() - t0 <= overall_timeout_s
DrainContinues(el, overall) == el <= overall

(***************************************************************************)
(* Inputs.                                                                 *)
(***************************************************************************)
\* (command byte, payload) pairs a feature module hands to txrx:
\* version, fan set-duty 200, fan get-duty, temperature of sensor 1,
\* power LED on, and the keyboard-type command the simulator does not know.
Requests ==
    { [cmd |-> 72, data |-> <<1>>],
      [cmd |-> 32, data |-> <<2, 2, 200>>],
      [cmd |-> 32, data |-> <<4, 1>>],
      [cmd |-> 40, data |-> <<1>>],
      [cmd |-> 16, data |-> <<1, 1>>],
      [cmd |-> 80, data |-> <<>>] }

ExpectLens == {None} \cup { Some(n) : n \in -1..MaxExpect }

\* what a caller of the raw backend API writes
DirectCmds == {32, 72, 80, 328}
DirectBytes == {1, 4}

\* bytes the hardware EC produces
DevBytes == {7}

\* the longest response the simulator builds: the longest catalog field
LongestResponse ==
    LET lens == {FIELDS[k].length : k \in DOMAIN FIELDS} \cup {20}
    IN  CHOOSE n \in lens : \A l \in lens : l <= n

\* an overall timeout like the modules' default -t 5.0: long enough for the
\* drain loop to read the longest response and meet the read timeout
LongOverall == MaxStartTicks + MaxReadTicks * (LongestResponse + 1)

\* the lengths a caller overrides a field's length to (--field-length)
OverrideLens == {0, 4}

\* payload bytes a caller writes to a field: no default text looks like them
PatternBytes(n) == [k \in 1..n |-> (37 * k + 200) % 256]

Request(c, d, e) == [cmd |-> c, data |-> d, expect_len |-> e]

\* the transactions the feature module named by a (the parsed command line)
\* makes: (command byte, payload, expect_len) as its run() passes them to txrx
ModuleRequests(a) ==
    IF a.module = "led"
    THEN { Request(16, <<sub, val>>, Some(0)) : sub \in {1, 2}, val \in {1, 2, 3} }
    ELSE IF a.module = "fan"
    THEN { Request(32, <<1, v>>, Some(0)) : v \in {1, 2} }
         \cup { Request(32, <<2, 2, d>>, Some(0)) : d \in {0, 200, 255} }
         \cup { Request(32, <<3, 3, r % 256, r \div 256>>, Some(0)) :
                    r \in {4660, 65535} }
         \cup { Request(32, <<4, 1>>, Some(1)), Request(32, <<5, 2>>, Some(2)) }
    ELSE IF a.module = "battery"
    THEN { Request(48, <<1, v>>, Some(0)) : v \in {1, 2} }
         \cup { Request(48, <<2, 1>>, Some(0)), Request(48, <<3, 1>>, Some(0)),
                Request(49, <<3>>, Some(2)), Request(49, <<23>>, Some(6)) }
    ELSE IF a.module = "kblight"
    THEN { Request(64, <<1>>, Some(0)), Request(64, <<2>>, Some(0)) }
         \cup { Request(64, <<3, l>>, Some(0)) : l \in 0..3 }
    ELSE IF a.module = "kbtype"
    THEN { Request(80, <<1, 5>>, Some(0)), Request(80, <<3, 2, 7>>, Some(0)) }
    ELSE IF a.module = "temp"
    THEN { Request(40, <<sub>>, Some(2)) : sub \in 1..7 }
    ELSE IF a.module = "ecversion"
    THEN { Request(72, <<1>>, None) }
    ELSE IF a.module = "smbios"
    THEN LET f == FIELDS[a.field]
             lens == {f.length} \cup (OverrideLens \ {0})
         IN  { Request(f.read_cmd, <<f.read_sub>>, Some(n)) : n \in lens }
             \cup { Request(f.write_cmd, <<f.write_sub>> \o PatternBytes(n),
                            Some(0)) : n \in lens }
             \cup { Request(98, <<1>>, Some(0)) }
             \cup (IF a.field = "mac_address"
                   \* --write AA:BB:CC:DD:EE:FF
                   THEN { Request(f.write_cmd, <<f.write_sub>> \o
                            _encode_field(f, _SMBIOS_DEFAULTS[a.field]).val,
                            Some(0)) }
                   ELSE {})
    ELSE \* raw: any command byte, any payload, any length
         { Request(72, <<1>>, Some(20)), Request(328, <<1>>, None),
           Request(72, <<2>>, Some(0)), Request(16, <<1, 0>>, Some(0)),
           Request(16, <<1, 9>>, Some(0)), Request(16, <<3, 1>>, Some(0)),
           Request(32, <<2, 2, 200>>, Some(0)), Request(32, <<4, 1>>, Some(1)),
           Request(96, <<10, 5>>, Some(0)), Request(96, <<99, 5>>, Some(0)),
           Request(96, <<>>, Some(0)), Request(97, <<10>>, Some(1)),
           Request(97, <<99>>, Some(0)), Request(80, <<1, 5>>, Some(0)),
           Request(98, <<1>>, Some(0)), Request(0, <<>>, Some(0)),
           Request(73, <<1, 2, 3>>, None), Request(255, <<1>>, Some(0)) }

\* one catalog field of each (encoding, length) class: the simulator uses a
\* field only through its two sub-commands and its length
SessionFields ==
    { "system_product_name", "system_family", "serial_number_system",
      "manufacture_name", "uuid", "project_define", "country_type",
      "mac_address", "battery_first_use_date" }

\* the command lines of the sessions: a module, and for smbios a field
Sessions ==
    { [module |-> mod, field |-> ""] :
        mod \in {"raw", "led", "fan", "battery", "kblight", "kbtype", "temp",
                 "ecversion"} }
    \cup { [module |-> "smbios", field |-> k] : k \in SessionFields }

\* an EcSimulator whose transaction has queued the bytes q
Queueing(q) ==
    [EcSimulator_init EXCEPT !._current_cmd = Some(0), !._out = q,
                             !._responded = TRUE]

\* no read_byte made yet: nothing collected, both backends in step
NoTwin == [out |-> <<>>, timed_out |-> FALSE, instep |-> TRUE]

\* the drain loop's read_byte(timeout_s) as it goes on a simulator that
\* queues q, the bytes the EC presents: while both backends have answered
\* alike the twin collects what the simulator returns
TwinRead(tw, q, timeout_s) ==
    LET Step(s, h) ==
            [out |-> IF s = None THEN tw.out ELSE Append(tw.out, s[1]),
             timed_out |-> (s = None),
             instep |-> (s = h)]
    IN  IF ~tw.instep THEN tw
        ELSE Step(EcSimulator_read_byte(Queueing(q), timeout_s).ret,
                  EcIo_read_byte([obf |-> q], timeout_s).ret)

\* SMBIOS.run has not been called.  read, write, field_length: args.read,
\* args.write, args.field_length; rc: the return code; printable: the text
\* printed on success; calls: the txrx calls made, (cmd, data) each
NoRun ==
    [ read |-> FALSE, write |-> None, field_length |-> None, rc |-> None,
      printable |-> <<>>, calls |-> <<>> ]

\* no EcIo method call is under way, the EC's input buffer empty.
\* pc: where the call stands; op: the method; timeout, t: timeout_s and
\* perf_counter() - t0 in poll periods; arg: the byte to write; log: the port
\* accesses of the call, <<"inb" or "outb", port, value, t>>; kind, flag, byte:
\* how the call ended, the boolean or the byte it returned; ibf: status bit
\* 0x02 of the EC; ibf0: that bit when the call was made
NoIo ==
    [ pc |-> "idle", op |-> "none", timeout |-> 0, t |-> 0, arg |-> 0,
      log |-> <<>>, kind |-> "none", flag |-> FALSE, byte |-> None,
      ibf |-> FALSE, ibf0 |-> FALSE ]

(***************************************************************************)
(* The backend calls, on whichever backend the process constructed.        *)
(***************************************************************************)
WriteCommand(c) ==
    /\ IF ec = "EcSimulator"
       THEN sim' = EcSimulator_write_command(sim, c) /\ hw' = hw
       ELSE hw' = EcIo_write_command(hw, c) /\ sim' = sim
    /\ gen' = None
    /\ got' = <<>>
    /\ ndispatch' = 0
    /\ nquiet' = 0
    /\ stale' = (ec = "EcSimulator" /\ sim._out # <<>>)
    /\ last' = <<"write_command", c>>
    /\ changed' = Changed(sim, sim')
    /\ dispatched' = FALSE
    /\ ovr' = ovr
    /\ twin' = NoTwin

WriteData(b) ==
    /\ IF ec = "EcSimulator"
       THEN sim' = EcSimulator_write_data(sim, b) /\ hw' = hw
       ELSE hw' = EcIo_write_data(hw, b) /\ sim' = sim
    /\ last' = <<"write_data", b>>
    /\ changed' = Changed(sim, sim')
    /\ dispatched' = FALSE
    /\ UNCHANGED <<gen, got, ndispatch, nquiet, stale, ovr, twin>>

ReadResult(timeout_s) ==
    IF ec = "EcSimulator"
    THEN LET OfSim(r) == [sim |-> r.sim, hw |-> hw, ret |-> r.ret,
                          ran |-> r.ran, resp |-> r.resp]
         IN  OfSim(EcSimulator_read_byte(sim, timeout_s))
    ELSE LET OfHw(r) == [sim |-> sim, hw |-> r.hw, ret |-> r.ret,
                         ran |-> FALSE, resp |-> <<>>]
         IN  OfHw(EcIo_read_byte(hw, timeout_s))

\* the state change of one read_byte(timeout_s) call whose outcome is r
ReadByte(timeout_s, r) ==
    /\ sim' = r.sim
    /\ hw' = r.hw
    /\ gen' = IF r.ran THEN Some(r.resp) ELSE gen
    /\ got' = IF r.ret = None THEN got ELSE Append(got, r.ret[1])
    /\ ndispatch' = IF r.ran THEN Min(ndispatch + 1, 2) ELSE ndispatch
    /\ nquiet' = IF r.ret = None THEN nquiet + 1 ELSE nquiet
    /\ stale' = stale
    /\ last' = <<"read_byte", timeout_s>>
    /\ changed' = Changed(sim, r.sim)
    /\ dispatched' = r.ran
    /\ ovr' = ovr
    /\ twin' = IF ec = "EcIo" THEN TwinRead(twin, hw.obf, timeout_s) ELSE twin

(***************************************************************************)
(* txrx, one step per backend call.                                        *)
(***************************************************************************)
Txrx_call(req, e, w, o) ==
    /\ pc = "idle"
    /\ cmd' = req.cmd
    /\ data' = req.data
    /\ expect_len' = e
    /\ wait_s' = w
    /\ overall_timeout_s' = o
    /\ WriteCommand(req.cmd)
    /\ calls' = << <<"write_command", req.cmd>> >>
    /\ i' = 0
    /\ pc' = "write_data"
    /\ UNCHANGED <<ec, args, fdef, catalog, io, run, codec, out, elapsed, timed_out, result>>

Txrx_write_data ==
    /\ pc = "write_data"
    /\ i < Len(data)
    /\ WriteData(data[i + 1])
    /\ calls' = Append(calls, <<"write_data", data[i + 1]>>)
    /\ i' = i + 1
    /\ UNCHANGED <<ec, args, fdef, catalog, io, run, codec, pc, cmd, data, expect_len, wait_s, overall_timeout_s,
                   out, elapsed, timed_out, result>>

\* time.sleep(0.3); out = []; t0 = time.perf_counter(); timed_out = False
Txrx_settle ==
    /\ pc = "write_data"
    /\ i = Len(data)
    /\ out' = <<>>
    /\ timed_out' = FALSE
    /\ \E j \in 0..MaxStartTicks : elapsed' = j
    /\ pc' = "drain"
    /\ UNCHANGED <<ec, args, fdef, catalog, io, run, codec, sim, hw, cmd, data, expect_len, wait_s,
                   overall_timeout_s, i, result, calls, histvars>>

\* a drain loop whose except clause leaves timed_out as it was
Txrx_read_flag_not_set ==
    /\ pc = "drain"
    /\ DrainContinues(elapsed, overall_timeout_s)
    /\ LET Read(r) ==
               /\ ReadByte(wait_s, r)
               /\ IF r.ret # None
                  THEN /\ out' = Append(out, r.ret[1])
                       /\ UNCHANGED <<timed_out, pc>>
                  ELSE /\ timed_out' = timed_out
                       /\ pc' = "reconcile"
                       /\ out' = out
       IN  Read(ReadResult(wait_s))
    /\ \E d \in 1..MaxReadTicks : elapsed' = elapsed + d
    /\ calls' = Append(calls, <<"read_byte", wait_s>>)
    /\ UNCHANGED <<ec, args, fdef, catalog, io, run, codec, cmd, data, expect_len, wait_s, overall_timeout_s, i,
                   result>>

\* one iteration of the drain loop
Txrx_read ==
    /\ pc = "drain"
    /\ DrainContinues(elapsed, overall_timeout_s)
    /\ LET Read(r) ==
               /\ ReadByte(wait_s, r)
               /\ IF r.ret # None
                  THEN /\ out' = Append(out, r.ret[1])
                       /\ UNCHANGED <<timed_out, pc>>
                  ELSE /\ timed_out' = TRUE
                       /\ pc' = "reconcile"
                       /\ out' = out
       IN  Read(ReadResult(wait_s))
    /\ \E d \in 1..MaxReadTicks : elapsed' = elapsed + d
    /\ calls' = Append(calls, <<"read_byte", wait_s>>)
    /\ UNCHANGED <<ec, args, fdef, catalog, io, run, codec, cmd, data, expect_len, wait_s, overall_timeout_s, i,
                   result>>

\* the loop test fails
Txrx_drain_end ==
    /\ pc = "drain"
    /\ ~DrainContinues(elapsed, overall_timeout_s)
    /\ pc' = "reconcile"
    /\ UNCHANGED <<ec, args, fdef, catalog, io, run, codec, sim, hw, cmd, data, expect_len, wait_s,
                   overall_timeout_s, i, out, elapsed, timed_out, result,
                   calls, histvars>>

\* a txrx that sends the transaction again when the response came short
Txrx_return_retry ==
    /\ pc = "reconcile"
    /\ IF Reconcile(out, expect_len, timed_out).kind = "raise"
       THEN /\ WriteCommand(cmd)
            /\ calls' = Append(calls, <<"write_command", cmd>>)
            /\ i' = 0
            /\ pc' = "write_data"
            /\ UNCHANGED <<result>>
       ELSE /\ result' = Reconcile(out, expect_len, timed_out)
            /\ pc' = "done"
            /\ UNCHANGED <<sim, hw, i, calls, histvars>>
    /\ UNCHANGED <<ec, args, fdef, catalog, io, run, codec, cmd, data, expect_len, wait_s, overall_timeout_s, out,
                   elapsed, timed_out>>

Txrx_return ==
    /\ pc = "reconcile"
    /\ result' = Reconcile(out, expect_len, timed_out)
    /\ pc' = "done"
    /\ UNCHANGED <<ec, args, fdef, catalog, io, run, codec, sim, hw, cmd, data, expect_len, wait_s,
                   overall_timeout_s, i, out, elapsed, timed_out, calls,
                   histvars>>

\* the caller takes the result; the frame of the call is gone
Txrx_exit ==
    /\ pc = "done"
    /\ pc' = "idle"
    /\ cmd' = 0 /\ data' = <<>> /\ expect_len' = None
    /\ wait_s' = 0 /\ overall_timeout_s' = 0
    /\ i' = 0 /\ out' = <<>> /\ elapsed' = 0 /\ timed_out' = FALSE
    /\ result' = NoResult /\ calls' = <<>>
    /\ UNCHANGED <<ec, args, fdef, catalog, io, run, codec, sim, hw, histvars>>

(***************************************************************************)
(* The simulator's API called directly, while no txrx call is in flight.   *)
(***************************************************************************)
Direct_write_command(c) ==
    /\ pc = "idle"
    /\ ec = "EcSimulator"
    /\ WriteCommand(c)
    /\ UNCHANGED <<ec, args, fdef, catalog, io, run, codec, txvars>>

Direct_write_data(b) ==
    /\ pc = "idle"
    /\ ec = "EcSimulator"
    /\ Len(sim._data) < MaxPayload
    /\ WriteData(b)
    /\ UNCHANGED <<ec, args, fdef, catalog, io, run, codec, txvars>>

Direct_read_byte(t) ==
    /\ pc = "idle"
    /\ ec = "EcSimulator"
    /\ nquiet < MaxQuietReads
    /\ ReadByte(t, ReadResult(t))
    /\ UNCHANGED <<ec, args, fdef, catalog, io, run, codec, txvars>>

\* override_smbios_field_length(read_sub, length), called on the simulator
\* between transactions
Override_smbios_field_length(read_sub, length) ==
    /\ pc = "idle"
    /\ ec = "EcSimulator"
    /\ LET Apply(r) ==
               /\ sim' = r.sim
               /\ changed' = Changed(sim, r.sim)
               /\ ovr' = Some([ read_sub |-> read_sub, length |-> length,
                                stored |->
                                    IF read_sub \in DOMAIN sim._smbios_store
                                    THEN sim._smbios_store[read_sub]
                                    ELSE <<>>,
                                raised |-> r.raised ])
       IN  Apply(EcSimulator_override_smbios_field_length(sim, read_sub,
                                                          length))
    /\ dispatched' = FALSE
    /\ last' = <<"override_smbios_field_length", read_sub>>
    /\ UNCHANGED <<ec, args, fdef, catalog, io, run, codec, hw, txvars, gen, got, ndispatch,
                   nquiet, stale, twin>>

\* the hardware EC makes one more byte ready
EcProduce(b) ==
    /\ ec = "EcIo"
    /\ Len(hw.obf) < MaxDevOut
    /\ hw' = [hw EXCEPT !.obf = Append(@, b)]
    /\ UNCHANGED <<ec, args, fdef, catalog, io, run, codec, sim, txvars, histvars>>

(***************************************************************************)
(* Specification.                                                          *)
(***************************************************************************)
\* no codec call is under way
NoField == FieldDef("", 0, 0, 0, 0, 0, "")

NoCodec ==
    [ value |-> <<>>, step |-> "none", enc |-> EncodeError(""),
      dec |-> ValueError(""), resp |-> <<>>, buf |-> <<>>, orig |-> <<>>,
      nswap |-> 0, swap_ok |-> TRUE ]

\* both backends as constructed, no txrx call in flight, no call made yet
Constructed ==
    /\ sim = EcSimulator_init
    /\ hw = EcIo_init
    /\ pc = "idle"
    /\ cmd = 0 /\ data = <<>> /\ expect_len = None
    /\ wait_s = 0 /\ overall_timeout_s = 0
    /\ i = 0 /\ out = <<>> /\ elapsed = 0 /\ timed_out = FALSE
    /\ result = NoResult /\ calls = <<>>
    /\ gen = None /\ got = <<>> /\ ndispatch = 0 /\ nquiet = 0
    /\ stale = FALSE
    /\ last = <<"__init__", 0>>
    /\ changed = {} /\ dispatched = FALSE /\ ovr = None
    /\ twin = NoTwin
    /\ catalog = FIELDS
    /\ io = NoIo
    /\ run = NoRun

Init ==
    /\ ec \in {"EcSimulator", "EcIo"}
    /\ args = [module |-> "raw", field |-> ""]
    /\ fdef = NoField
    /\ codec = NoCodec
    /\ Constructed

TxrxStep ==
    \/ Txrx_write_data
    \/ Txrx_settle
    \/ Txrx_read
    \/ Txrx_drain_end
    \/ Txrx_return

\* feature modules running transactions through txrx, on either backend
Next ==
    \/ \E req \in Requests, e \in ExpectLens, w \in 0..MaxWait,
          o \in 0..MaxOverall : Txrx_call(req, e, w, o)
    \/ TxrxStep
    \/ Txrx_exit
    \/ \E b \in DevBytes : EcProduce(b)

Spec == Init /\ [][Next]_vars

\* txrx is straight-line synchronous code: a call in flight takes its next step
FairSpec == Spec /\ WF_vars(TxrxStep)

\* a client of the simulator calling its three API methods in any order
SimInit == Init /\ ec = "EcSimulator"

SimNext ==
    \/ \E c \in DirectCmds : Direct_write_command(c)
    \/ \E b \in DirectBytes : Direct_write_data(b)
    \/ \E t \in 0..MaxWait : Direct_read_byte(t)

SimSpec == SimInit /\ [][SimNext]_vars

(***************************************************************************)
(* The codecs applied to drawn inputs: _encode_field on a descriptor and a *)
(* value, _decode_field on the bytes it produced, and                      *)
(* _swap_uuid_segments on a buffer, time after time.                       *)
(***************************************************************************)
\* dataclasses.replace(field, length=n): the per-run length override
WithLength(f, n) == [f EXCEPT !.length = n]

\* descriptors of every encoding kind, at the catalog length and overridden
CodecFields ==
    { FIELDS["project_define"], FIELDS["uuid"], FIELDS["mac_address"],
      FIELDS["battery_first_use_date"], FIELDS["country_type"],
      WithLength(FIELDS["country_type"], 2),
      WithLength(FIELDS["mac_address"], 2),
      WithLength(FIELDS["battery_first_use_date"], 1),
      WithLength(FIELDS["uuid"], 4) }

\* the values handed to the encoders (--write VALUE)
CodecValues ==
    { \* AB
      <<65, 66>>,
      \* A\0B
      <<65, 0, 66>>,
      \* the empty string
      <<>>,
      \* ABCD
      <<65, 66, 67, 68>>,
      \* caf\u00e9
      <<99, 97, 102, 233>>,
      \* AA:BB:CC:DD:EE:FF
      <<65, 65, 58, 66, 66, 58, 67, 67, 58, 68, 68, 58, 69, 69, 58, 70,
      70>>,
      \* aabbccddeeff
      <<97, 97, 98, 98, 99, 99, 100, 100, 101, 101, 102, 102>>,
      \* 10:20
      <<49, 48, 58, 50, 48>>,
      \* 1f-2E
      <<49, 102, 45, 50, 69>>,
      \* 10
      <<49, 48>>,
      \* 0x10
      <<48, 120, 49, 48>>,
      \* 7
      <<55>>,
      \* 300
      <<51, 48, 48>>,
      \* zz
      <<122, 122>>,
      \* 12345678-90ab-cdef-1234-567890abcdef
      <<49, 50, 51, 52, 53, 54, 55, 56, 45, 57, 48, 97, 98, 45, 99, 100,
      101, 102, 45, 49, 50, 51, 52, 45, 53, 54, 55, 56, 57, 48, 97, 98,
      99, 100, 101, 102>>,
      \* {12345678-90AB-CDEF-1234-567890ABCDEF}
      <<123, 49, 50, 51, 52, 53, 54, 55, 56, 45, 57, 48, 65, 66, 45, 67,
      68, 69, 70, 45, 49, 50, 51, 52, 45, 53, 54, 55, 56, 57, 48, 65,
      66, 67, 68, 69, 70, 125>>,
      \* urn:uuid:00112233445566778899aabbccddeeff
      <<117, 114, 110, 58, 117, 117, 105, 100, 58, 48, 48, 49, 49, 50,
      50, 51, 51, 52, 52, 53, 53, 54, 54, 55, 55, 56, 56, 57, 57, 97,
      97, 98, 98, 99, 99, 100, 100, 101, 101, 102, 102>>,
      \* 20240315
      <<50, 48, 50, 52, 48, 51, 49, 53>>,
      \* 2024-03-15
      <<50, 48, 50, 52, 45, 48, 51, 45, 49, 53>>,
      \* 19
      <<49, 57>>,
      \* the digits 20240315 written with U+0660..U+0669
      <<1634, 1632, 1634, 1636, 1632, 1635, 1633, 1637>>,
      \* 2024031 followed by U+00B2
      <<50, 48, 50, 52, 48, 51, 49, 178>>,
      \* 0x20 0x24 0x03 0x15
      <<48, 120, 50, 48, 32, 48, 120, 50, 52, 32, 48, 120, 48, 51, 32,
      48, 120, 49, 53>>,
      \* 1,2
      <<49, 44, 50>> }

\* buffers handed to the segment swap: two of 16 pairwise distinct bytes (a
\* swap moves bytes whatever their values), one of equal bytes and one that
\* is not 16 bytes long
CodecBufs ==
    { [k \in 1..16 |-> k - 1], [k \in 1..16 |-> 256 - 3 * k],
      [k \in 1..16 |-> 0], <<1, 2, 3, 4>> }

\* responses of n bytes: zeros, packed digits, 0x99s, a byte whose low
\* nibble is 10, a byte whose high nibble is 10, and 0xFFs
RespBufs(n) ==
    { Zeros(n),
      [k \in 1..n |-> 16 * (k % 10) + ((2 * k + 1) % 10)],
      [k \in 1..n |-> 153],
      [k \in 1..n |-> IF k = n THEN 42 ELSE 32],
      [k \in 1..n |-> IF k = 1 THEN 160 ELSE 21],
      [k \in 1..n |-> 255] }

CodecInit ==
    /\ ec = "EcSimulator"
    /\ args = [module |-> "smbios", field |-> ""]
    /\ Constructed
    /\ fdef \in CodecFields
    /\ \E v \in CodecValues, b \in CodecBufs :
          codec = [NoCodec EXCEPT !.value = v, !.step = "value", !.buf = b,
                                  !.orig = b]

Codec_encode ==
    /\ codec.step = "value"
    /\ codec' = [codec EXCEPT !.enc = _encode_field(fdef, codec.value),
                              !.step = "encoded"]
    /\ UNCHANGED <<ec, args, fdef, catalog, io, run, sim, hw, txvars, histvars>>

Codec_decode ==
    /\ codec.step = "encoded"
    /\ codec.enc.ok
    /\ codec' = [codec EXCEPT !.dec = _decode_field(fdef, codec.enc.val),
                              !.step = "decoded"]
    /\ UNCHANGED <<ec, args, fdef, catalog, io, run, sim, hw, txvars, histvars>>

\* SMBIOS.run after a read: the response has the descriptor's length
\* (len(resp) != field.length ends the run before) and is decoded
Codec_decode_resp ==
    /\ codec.step = "value"
    /\ \E b \in RespBufs(fdef.length) :
          codec' = [codec EXCEPT !.resp = b,
                                 !.dec = _decode_field(fdef, b),
                                 !.step = "read"]
    /\ UNCHANGED <<ec, args, fdef, catalog, io, run, sim, hw, txvars, histvars>>

Codec_swap ==
    /\ codec.nswap < MaxSwaps
    /\ codec.swap_ok
    /\ LET r == _swap_uuid_segments(codec.buf)
       IN  codec' = [codec EXCEPT !.buf = IF r.ok THEN r.val ELSE @,
                                  !.swap_ok = r.ok,
                                  !.nswap = @ + 1]
    /\ UNCHANGED <<ec, args, fdef, catalog, io, run, sim, hw, txvars, histvars>>

CodecNext ==
    Codec_encode \/ Codec_decode \/ Codec_decode_resp \/ Codec_swap

CodecSpec == CodecInit /\ [][CodecNext]_vars

\* a session of one feature module on the simulator: transactions with the
\* module's positive --wait and either a zero or a long overall timeout, and
\* for smbios the length override of the session's field
DevInit ==
    /\ ec = "EcSimulator"
    /\ args \in Sessions
    /\ fdef = NoField
    /\ codec = NoCodec
    /\ Constructed

DevNext ==
    \/ \E rq \in ModuleRequests(args), o \in {0, LongOverall} :
          Txrx_call([cmd |-> rq.cmd, data |-> rq.data], rq.expect_len,
                    MaxWait, o)
    \/ TxrxStep
    \/ Txrx_exit
    \/ \E n \in OverrideLens :
          /\ args.module = "smbios"
          /\ Override_smbios_field_length(FIELDS[args.field].read_sub, n)

DevSpec == DevInit /\ [][DevNext]_vars

(***************************************************************************)
(* Transactions whose command and payload values are any integers: fan,    *)
(* keyboard backlight and LED commands with values above 255, below 0 and  *)
(* beyond what the handlers take.                                          *)
(***************************************************************************)
ArbitraryRequests ==
    { [cmd |-> 32, data |-> <<1, 2>>], [cmd |-> 32, data |-> <<1, 1>>],
      [cmd |-> 32, data |-> <<2, 2, 300>>],
      [cmd |-> 32, data |-> <<2, 2, -1>>],
      [cmd |-> 32, data |-> <<3, 3, 255, 255>>],
      [cmd |-> 32, data |-> <<3, 3, 300, 511>>],
      [cmd |-> 64, data |-> <<3, 9>>], [cmd |-> 64, data |-> <<3, 258>>],
      [cmd |-> 320, data |-> <<3, -1>>],
      [cmd |-> -240, data |-> <<1, 1>>],
      [cmd |-> 32, data |-> <<4, 257>>] }

RangeInit ==
    /\ ec = "EcSimulator"
    /\ args = [module |-> "raw", field |-> ""]
    /\ fdef = NoField
    /\ codec = NoCodec
    /\ Constructed

RangeNext ==
    \/ \E rq \in ArbitraryRequests, o \in {0, LongOverall} :
          Txrx_call(rq, Some(0), MaxWait, o)
    \/ TxrxStep
    \/ Txrx_exit

RangeSpec == RangeInit /\ [][RangeNext]_vars

(***************************************************************************)
(* EcIo, one step per port access.  The EC behind the ports runs on its    *)
(* own: it fills the output buffer (EcProduce) and empties the input       *)
(* buffer (Ec_consume) between any two steps of a method call.             *)
(***************************************************************************)
MaxIoTimeout == 2     \* timeout_s of a wait, in poll periods
MaxSleepTicks == 2    \* poll periods one time.sleep(poll_s) may take

DEFAULT_CMD_PORT == 108
DEFAULT_DATA_PORT == 104

WaitOps == {"wait_ibf_clear", "wait_obf_set"}
WriteOps == {"write_command", "write_data"}

\* values callers hand to write_command / write_data
IoBytes == {1, 258}

\* inb(self.cmd.value): bit 0x01 output buffer full, bit 0x02 input buffer full
Inb_status(h, ibf) == EcIo_status(h) + (IF ibf THEN 2 ELSE 0)

\* inb(self.dat.value): the oldest byte of the output buffer; the register
\* reads 0 when the EC has put nothing in it
Inb_data(h) == IF h.obf = <<>> THEN 0 ELSE Head(h.obf)

\* the test of the poll loops: (status & 0x02) == 0, (status & 0x01) != 0;
\* read_byte waits through wait_obf_set
EcIo_ready(op, s) ==
    IF op = "wait_ibf_clear" THEN (s \div 2) % 2 = 0 ELSE s % 2 # 0

\* while time.perf_counter() - t0 < timeout_s
EcIo_polling(t, timeout_s) == t < timeout_s

\* a wait that raises when its deadline passes
EcIo_expired_raises(op) == [pc |-> "done", kind |-> "raise", flag |-> FALSE]

\* a read_byte that reads the data port although the wait gave up
EcIo_expired_reads(op) ==
    IF op = "read_byte"
    THEN [pc |-> "in", kind |-> "none", flag |-> FALSE]
    ELSE [pc |-> "done", kind |-> "return", flag |-> FALSE]

\* the loop is left at its deadline: the waits return False, and read_byte
\* raises TimeoutError on wait_obf_set's False
EcIo_expired(op) ==
    IF op = "read_byte"
    THEN [pc |-> "done", kind |-> "raise", flag |-> FALSE]
    ELSE [pc |-> "done", kind |-> "return", flag |-> FALSE]

\* a poll has read status s: return True (read_byte goes on to the data
\* port), or sleep
EcIo_polled(op, s) ==
    IF ~EcIo_ready(op, s)
    THEN [pc |-> "sleep", kind |-> "none", flag |-> FALSE]
    ELSE IF op = "read_byte"
    THEN [pc |-> "in", kind |-> "none", flag |-> FALSE]
    ELSE [pc |-> "done", kind |-> "return", flag |-> TRUE]

\* a write that is repeated on the other port
EcIo_outb_both_ports(op, b) ==
    << <<"outb", DEFAULT_CMD_PORT, b % 256, 0>>,
       <<"outb", DEFAULT_DATA_PORT, b % 256, 0>> >>

\* the port writes of write_command(b) / write_data(b): one outb, val & 0xFF
EcIo_outb(op, b) ==
    << <<"outb",
         IF op = "write_command" THEN DEFAULT_CMD_PORT ELSE DEFAULT_DATA_PORT,
         b % 256, 0>> >>

iorest == <<ec, args, fdef, catalog, run, codec, sim, txvars, histvars>>

\* wait_ibf_clear(timeout_s), wait_obf_set(timeout_s), read_byte(timeout_s)
Io_call_wait(op, timeout_s) ==
    /\ io.pc = "idle"
    /\ io' = [NoIo EXCEPT !.pc = "loop", !.op = op, !.timeout = timeout_s,
                          !.ibf = io.ibf, !.ibf0 = io.ibf]
    /\ UNCHANGED <<hw, iorest>>

\* write_command(b), write_data(b)
Io_call_write(op, b) ==
    /\ io.pc = "idle"
    /\ io' = [NoIo EXCEPT !.pc = "out", !.op = op, !.arg = b,
                          !.ibf = io.ibf, !.ibf0 = io.ibf]
    /\ UNCHANGED <<hw, iorest>>

\* the loop test and, inside the loop, the status read and its test
Io_poll ==
    /\ io.pc = "loop"
    /\ LET Go(r, entry) ==
               [io EXCEPT !.pc = r.pc, !.kind = r.kind, !.flag = r.flag,
                          !.log = @ \o entry]
           Poll(s) ==
               Go(EcIo_polled(io.op, s),
                  << <<"inb", DEFAULT_CMD_PORT, s, io.t>> >>)
       IN  io' = IF EcIo_polling(io.t, io.timeout)
                 THEN Poll(Inb_status(hw, io.ibf))
                 ELSE Go(EcIo_expired(io.op), <<>>)
    /\ UNCHANGED <<hw, iorest>>

\* time.sleep(poll_s)
Io_sleep(d) ==
    /\ io.pc = "sleep"
    /\ io' = [io EXCEPT !.pc = "loop", !.t = @ + d]
    /\ UNCHANGED <<hw, iorest>>

\* return self.inb(self.dat.value): the read empties the output buffer
Io_inb ==
    /\ io.pc = "in"
    /\ LET In(v) ==
               [io EXCEPT !.pc = "done", !.kind = "return",
                          !.byte = Some(v),
                          !.log = Append(@, <<"inb", DEFAULT_DATA_PORT, v,
                                              io.t>>)]
       IN  io' = In(Inb_data(hw))
    /\ hw' = [hw EXCEPT !.obf = IF @ = <<>> THEN @ ELSE Tail(@)]
    /\ UNCHANGED iorest

\* self.outb(port, b): the write fills the EC's input buffer
Io_outb ==
    /\ io.pc = "out"
    /\ io' = [io EXCEPT !.pc = "done", !.kind = "return", !.ibf = TRUE,
                        !.log = @ \o EcIo_outb(io.op, io.arg)]
    /\ UNCHANGED <<hw, iorest>>

\* the caller has the outcome and may make the next call
Io_return ==
    /\ io.pc = "done"
    /\ io' = [NoIo EXCEPT !.ibf = io.ibf]
    /\ UNCHANGED <<hw, iorest>>

\* the EC takes the byte written to it
Ec_consume ==
    /\ io.ibf
    /\ io' = [io EXCEPT !.ibf = FALSE]
    /\ UNCHANGED <<hw, iorest>>

HwInit == Init /\ ec = "EcIo"

HwNext ==
    \/ \E op \in WaitOps \cup {"read_byte"}, t \in 0..MaxIoTimeout :
          Io_call_wait(op, t)
    \/ \E op \in WriteOps, b \in IoBytes : Io_call_write(op, b)
    \/ Io_poll
    \/ \E d \in 1..MaxSleepTicks : Io_sleep(d)
    \/ Io_inb
    \/ Io_outb
    \/ Io_return
    \/ Ec_consume
    \/ \E b \in DevBytes : EcProduce(b)

HwSpec == HwInit /\ [][HwNext]_vars

(***************************************************************************)
(* SMBIOS.run, called time after time in one process on the simulator,     *)
(* with the default --wait and --timeout: both positive, the overall       *)
(* timeout longer than any response takes.                                 *)
(***************************************************************************)
RECURSIVE WriteAll(_, _)
\* for d in data: ec.write_data(d)
WriteAll(s, d) ==
    IF d = <<>> THEN s
    ELSE WriteAll(EcSimulator_write_data(s, Head(d)), Tail(d))

\* txrx(ec, c, d, expect_len=e) on the simulator: the first read_byte builds
\* the response, the drain loop pops all of it and ends in a read timeout
Txrx_sim(s, c, d, e) ==
    LET Drained(r) ==
            [sim |-> [r.sim EXCEPT !._out = <<>>],
             result |-> Reconcile(r.resp, e, TRUE)]
    IN  Drained(EcSimulator_read_byte(
                    WriteAll(EcSimulator_write_command(s, c), d), MaxWait))

\* a run that writes the overridden length into the catalog entry
Run_field_in_place(cat, key, n) ==
    [catalog |-> [cat EXCEPT ![key] = WithLength(@, n)],
     field |-> WithLength(cat[key], n)]

\* field = replace(FIELDS[args.field], length=override_len): a new
\* descriptor, FieldDef being a frozen dataclass
Run_field(cat, key, n) ==
    [catalog |-> cat, field |-> WithLength(cat[key], n)]

\* handler(field.read_sub, field.length), exceptions swallowed
_sync_simulator_field_length(s, field) ==
    EcSimulator_override_smbios_field_length(s, field.read_sub,
                                             field.length).sim

\* what a call of run leaves behind
Ran(cat, s, field, rc, printable, txs) ==
    [catalog |-> cat, sim |-> s, field |-> field, rc |-> rc,
     printable |-> printable, calls |-> txs]

\* the args.read branch of run
Run_read(cat, s, field) ==
    LET txs == << <<field.read_cmd, <<field.read_sub>> >> >>
        Decoded(s1, dec) ==
            IF ~dec.ok THEN Ran(cat, s1, field, 2, <<>>, txs)
            ELSE Ran(cat, s1, field, 0, dec.val, txs)
        Read(t) ==
            IF t.result.kind = "raise"
               \/ Len(t.result.value) # field.length
            THEN Ran(cat, t.sim, field, 2, <<>>, txs)
            ELSE Decoded(t.sim, _decode_field(field, t.result.value))
    IN  Read(Txrx_sim(s, field.read_cmd, <<field.read_sub>>,
                      Some(field.length)))

\* a write branch that sends the commit before the field write
Run_write_commit_first(cat, s, field, value) ==
    LET Written(t, enc, txs) ==
            IF t.result.kind = "raise"
            THEN Ran(cat, t.sim, field, 2, <<>>, txs)
            ELSE Ran(cat, t.sim, field, 0, enc.printable, txs)
        Committed(t, enc, payload) ==
            IF t.result.kind = "raise"
            THEN Ran(cat, t.sim, field, 2, <<>>, << <<98, <<1>> >> >>)
            ELSE Written(Txrx_sim(t.sim, field.write_cmd, payload, Some(0)),
                         enc,
                         << <<98, <<1>> >>, <<field.write_cmd, payload>> >>)
        Try(enc) ==
            IF ~enc.ok THEN Ran(cat, s, field, 2, <<>>, <<>>)
            ELSE Committed(Txrx_sim(s, 98, <<1>>, Some(0)), enc,
                           <<field.write_sub>> \o enc.val)
    IN  IF value = None THEN Ran(cat, s, field, 2, <<>>, <<>>)
        ELSE Try(_encode_field(field, value[1]))

\* the args.write branch of run: encode, write the field, commit (0x62)
Run_write(cat, s, field, value) ==
    LET Committed(t, enc, txs) ==
            IF t.result.kind = "raise"
            THEN Ran(cat, t.sim, field, 2, <<>>, txs)
            ELSE Ran(cat, t.sim, field, 0, enc.printable, txs)
        Written(t, enc, payload) ==
            IF t.result.kind = "raise"
            THEN Ran(cat, t.sim, field, 2, <<>>,
                     << <<field.write_cmd, payload>> >>)
            ELSE Committed(Txrx_sim(t.sim, 98, <<1>>, Some(0)), enc,
                           << <<field.write_cmd, payload>>,
                              <<98, <<1>> >> >>)
        Send(enc, payload) ==
            Written(Txrx_sim(s, field.write_cmd, payload, Some(0)), enc,
                    payload)
        Try(enc) ==
            IF ~enc.ok THEN Ran(cat, s, field, 2, <<>>, <<>>)
            ELSE Send(enc, <<field.write_sub>> \o enc.val)
    IN  IF value = None THEN Ran(cat, s, field, 2, <<>>, <<>>)
        ELSE Try(_encode_field(field, value[1]))

\* SMBIOS.run(args, ec) with the catalog cat and the simulator s
SMBIOS_run(cat, s, a) ==
    LET Branch(c, s1, field) ==
            IF a.read THEN Run_read(c, s1, field)
            ELSE Run_write(c, s1, field, a.write)
        Derived(r) ==
            Branch(r.catalog, _sync_simulator_field_length(s, r.field),
                   r.field)
    IN  IF a.field_length = None THEN Branch(cat, s, cat[a.field])
        ELSE IF a.field_length[1] <= 0
        THEN Ran(cat, s, cat[a.field], 2, <<>>, <<>>)
        ELSE Derived(Run_field(cat, a.field, a.field_length[1]))

\* the fields the runs name: a hex byte and a BCD date
RunFields == {"country_type", "battery_first_use_date"}

\* --write VALUE: 7, 20240315, zz
RunValues == { <<55>>, <<50, 48, 50, 52, 48, 51, 49, 53>>, <<122, 122>> }

\* the parsed command lines: --field, --read or --write VALUE, --field-length
RunArgs ==
    { [field |-> k, read |-> rd, write |-> w, field_length |-> n] :
        k \in RunFields, rd \in BOOLEAN,
        w \in {None} \cup { Some(v) : v \in RunValues },
        n \in {None} \cup { Some(l) : l \in OverrideLens } }

\* one call of run, from its first line to its return
Run(a) ==
    /\ pc = "idle"
    /\ ec = "EcSimulator"
    /\ a.read = (a.write = None)
    /\ LET Apply(r) ==
               /\ catalog' = r.catalog
               /\ sim' = r.sim
               /\ fdef' = r.field
               /\ run' = [read |-> a.read, write |-> a.write,
                          field_length |-> a.field_length,
                          rc |-> Some(r.rc), printable |-> r.printable,
                          calls |-> r.calls]
       IN  Apply(SMBIOS_run(catalog, sim, a))
    /\ args' = [module |-> "smbios", field |-> a.field]
    /\ UNCHANGED <<ec, io, codec, hw, txvars, histvars>>

RunInit ==
    /\ ec = "EcSimulator"
    /\ args = [module |-> "smbios", field |-> ""]
    /\ fdef = NoField
    /\ codec = NoCodec
    /\ Constructed

RunNext == \E a \in RunArgs : Run(a)

RunSpec == RunInit /\ [][RunNext]_vars

(***************************************************************************)
(* Claims about txrx.                                                      *)
(***************************************************************************)
OnSim == ec = "EcSimulator"

\* the response the simulator queued for the transaction of the call in flight
Queued == gen[1]

\* C1 as stated: whenever the simulator queued exactly b and expect_len is
\* len(b), the finished txrx call returned b (already with both timeouts
\* positive).
C1_AsStated ==
    (pc = "done" /\ OnSim /\ gen # None /\ expect_len = Some(Len(Queued))
        /\ wait_s > 0 /\ overall_timeout_s > 0)
        => result = Return(Queued)

\* C1 (amended): when the simulator queued exactly b, expect_len is len(b)
\* and the drain loop ran until a read_byte timed out (the overall timeout
\* did not end it first), txrx returns exactly b, in order.
C1_ExactResponse ==
    (pc = "done" /\ OnSim /\ gen # None /\ expect_len = Some(Len(Queued))
        /\ timed_out)
        => result = Return(Queued)

C1_Witness ==
    /\ pc = "done" /\ OnSim /\ gen # None /\ timed_out
    /\ Len(Queued) = 2 /\ Queued[1] # Queued[2]
    /\ expect_len = Some(2)
    /\ result.kind = "return"

\* C2 as stated: for every expect_len and all positive timeouts, a simulator
\* response longer than expect_len is returned cut to its first expect_len
\* bytes, without error, and no byte of it stays queued.
C2_AsStated ==
    (pc = "done" /\ OnSim /\ gen # None /\ expect_len # None
        /\ Len(Queued) > expect_len[1] /\ wait_s > 0 /\ overall_timeout_s > 0)
        => /\ result = Return(SubSeq(Queued, 1, expect_len[1]))
           /\ sim._out = <<>>

\* C2 (amended): for every expect_len >= 0 and all positive timeouts under
\* which the drain loop runs until a read_byte times out, a simulator
\* response longer than expect_len is returned cut to its first expect_len
\* bytes, without error, every byte of it was consumed by a read_byte and
\* none stays queued.
C2_TruncateAndDrain ==
    (pc = "done" /\ OnSim /\ gen # None /\ expect_len # None
        /\ expect_len[1] >= 0 /\ Len(Queued) > expect_len[1] /\ timed_out)
        => /\ result = Return(SubSeq(Queued, 1, expect_len[1]))
           /\ got = Queued
           /\ sim._out = <<>>

C2_Witness ==
    /\ pc = "done" /\ OnSim /\ gen # None /\ timed_out
    /\ wait_s > 0 /\ overall_timeout_s > 0
    /\ expect_len = Some(1) /\ Len(Queued) = 2
    /\ sim._out = <<>>

\* C3: a positive expect_len, fewer bytes collected than that and a drain
\* that ended with a read_byte timing out make txrx raise the short-response
\* error; no partial buffer is returned.
C3_ShortResponseRaises ==
    (pc = "done" /\ expect_len # None /\ expect_len[1] > 0
        /\ Len(out) < expect_len[1] /\ timed_out)
        => result.kind = "raise" /\ result.value = <<>>

C3_Witness ==
    /\ pc = "done" /\ timed_out /\ expect_len # None
    /\ Len(out) > 0 /\ Len(out) < expect_len[1]
    /\ result.kind = "raise"

\* C4: with expect_len None txrx returns every byte the drain collected
\* (the bytes read_byte returned, in arrival order), never an error.
C4_NoneReturnsAll ==
    (pc = "done" /\ expect_len = None)
        => result = Return(out) /\ out = got

C4_Witness ==
    /\ pc = "done" /\ expect_len = None
    /\ Len(out) >= 2 /\ out[1] # out[2]
    /\ result.value = out

\* C5: txrx ends either by returning or by the short-response error, and it
\* raises exactly when expect_len > 0 and fewer than expect_len bytes were
\* collected.
C5_OnlyShortResponseFails ==
    pc = "done"
        => /\ result.kind \in {"return", "raise"}
           /\ result.kind = "raise"
                <=> (expect_len # None /\ expect_len[1] > 0
                        /\ Len(out) < expect_len[1])

C5_Witness ==
    /\ pc = "done" /\ result.kind = "return"
    /\ expect_len = Some(0) /\ ~timed_out /\ Len(out) > 0

\* C6: the short-response message says "response timed out" exactly when
\* the drain loop ended on a read_byte that timed out, and "response ended
\* before expected length" exactly when no read timed out and the loop
\* ended because the overall timeout had elapsed.
C6_MessageTellsWhy ==
    (pc = "done" /\ result.kind = "raise")
        => /\ result.reason \in {"response timed out",
                                 "response ended before expected length"}
           /\ result.reason = "response timed out"
                <=> (nquiet > 0 /\ last[1] = "read_byte")
           /\ result.reason = "response ended before expected length"
                <=> (nquiet = 0 /\ elapsed > overall_timeout_s)

C6_Witness ==
    /\ pc = "done" /\ result.kind = "raise"
    /\ result.reason = "response ended before expected length"
    /\ Len(out) > 0

\* the read_byte calls the txrx call in flight has made
DrainReads == Len(calls) - 1 - Len(data)

\* C7: the backend calls of one txrx call are write_command(cmd) once, then
\* write_data for each payload byte in payload order, then read_byte calls
\* only: no read before the last write, nothing sent twice, also when the
\* call ends in the short-response error.
C7_OneTransaction ==
    pc # "idle"
        => /\ Len(calls) >= 1
           /\ calls[1] = <<"write_command", cmd>>
           /\ \A k \in 2..Len(calls) :
                IF k <= Len(data) + 1
                THEN calls[k] = <<"write_data", data[k - 1]>>
                ELSE calls[k][1] = "read_byte"
           /\ pc \in {"drain", "reconcile", "done"} => DrainReads >= 0

C7_Witness ==
    /\ pc = "done" /\ result.kind = "raise"
    /\ Len(data) >= 2 /\ DrainReads >= 2

\* C8: every txrx call in flight comes to its end, and its drain loop stops
\* at the first read timeout or once the overall timeout has elapsed: with
\* every read_byte taking a clock tick or more it makes at most
\* overall_timeout_s + 1 reads, however long the device keeps producing.
C8_TxrxTerminates ==
    /\ (pc # "idle") ~> (pc = "done")
    /\ [](pc = "drain" => ~timed_out)
    /\ [](pc \in {"drain", "reconcile", "done"}
            => DrainReads <= overall_timeout_s + 1)

C8_Witness ==
    /\ pc = "done" /\ ec = "EcIo" /\ ~timed_out
    /\ hw.obf # <<>> /\ Len(out) >= 3

(***************************************************************************)
(* Claims about the simulator's transaction book-keeping.                  *)
(***************************************************************************)
\* C9: write_command starts a fresh transaction context (the command byte
\* stored, payload and output buffer empty, responded flag clear), and every
\* byte read_byte returns in a transaction is a byte of the response built
\* in that same transaction, never one of an earlier response.
C9_FreshTransaction ==
    OnSim
        => /\ last[1] = "write_command"
                => /\ sim._current_cmd = Some(last[2] % 256)
                   /\ sim._data = <<>>
                   /\ sim._out = <<>>
                   /\ ~sim._responded
           /\ gen = None => got = <<>>
           /\ gen # None
                => /\ Len(got) <= Len(gen[1])
                   /\ got = SubSeq(gen[1], 1, Len(got))

C9_Witness ==
    OnSim /\ stale /\ got # <<>> /\ sim._current_cmd = Some(32)

\* C10: in one simulator transaction the command is dispatched at most
\* once, by the first read_byte; the bytes returned since and the bytes still
\* pending are together that one response, in order; and a read_byte that
\* finds the buffer empty after that times out and builds nothing anew.
C10_SingleDispatch ==
    OnSim
        => /\ ndispatch <= 1
           /\ sim._responded <=> (ndispatch = 1)
           /\ gen # None <=> (ndispatch = 1)
           /\ gen # None => gen[1] = got \o sim._out
           /\ nquiet > 0 => (gen # None /\ sim._out = <<>> /\ got = gen[1])

C10_Witness ==
    /\ OnSim /\ nquiet >= 2 /\ got # <<>> /\ ndispatch = 1
    /\ last[1] = "read_byte"

(***************************************************************************)
(* Claims about the simulator's handlers.                                  *)
(***************************************************************************)

\* the command bytes _generate_response has a branch for
KnownCmds == {16, 32, 40, 48, 49, 64, 72, 96, 97}

\* version = bytes(resp).split(b"\x00", 1)[0].decode("ascii", errors="replace")
ECVersion_decode(resp) ==
    LET z == {k \in 1..Len(resp) : resp[k] = 0}
        n == IF z = {} THEN Len(resp)
             ELSE (CHOOSE k \in z : \A j \in z : k <= j) - 1
    IN  [k \in 1..n |-> IF resp[k] > 127 THEN 65533 ELSE resp[k]]

\* the command the simulator is serving is one that only sets state
IsSetCommand ==
    /\ sim._current_cmd # None
    /\ \/ sim._current_cmd[1] \in {16, 48, 64, 96}
       \/ /\ sim._current_cmd[1] = 32
          /\ sim._data # <<>>
          /\ sim._data[1] \in {1, 2, 3}

\* the fields the handler of the command being served may assign
OwnFields ==
    IF sim._current_cmd = None THEN {}
    ELSE LET c == sim._current_cmd[1]
         IN  CASE c = 16 -> {"led_power", "led_charge"}
               [] c = 32 -> IF sim._data # <<>> /\ sim._data[1] \in {4, 5}
                            THEN {}
                            ELSE {"fan_mode", "fan_duty", "fan_rpm"}
               [] c = 48 -> {"batt_mode", "batt_charging", "batt_discharging"}
               [] c = 64 -> {"kb_backlight_on", "kb_backlight_level"}
               [] c = 96 -> {"_smbios_store"}
               [] OTHER  -> {}

\* C11: a transaction whose command byte the simulator has no branch for
\* (0x50, 0x62, 0x00, 0xFF, ...) produces an empty response, so that every
\* read_byte of it returns None, and no operation of it changes any field of
\* the device.
C11_UnknownCommand ==
    (/\ OnSim
     /\ sim._current_cmd # None
     /\ sim._current_cmd[1] \notin KnownCmds
     /\ last[1] # "override_smbios_field_length")
        => /\ sim._out = <<>>
           /\ got = <<>>
           /\ gen # None => gen[1] = <<>>
           /\ last[1] = "read_byte" => nquiet >= 1
           /\ changed = {}

\* the keyboard-type command with a three-byte payload has been dispatched
\* and read, and the keyboard type is the one the simulator was built with
C11_Witness ==
    /\ OnSim
    /\ sim._current_cmd = Some(80)
    /\ sim._data = <<3, 2, 7>>
    /\ ndispatch = 1
    /\ nquiet >= 1
    /\ sim.kbtype = EcSimulator_init.kbtype

\* C12: the LED, fan set (sub-commands 1..3), battery control, keyboard
\* backlight and SMBIOS write commands answer with no bytes at all: the
\* generated response is empty and no read_byte of the transaction returns
\* a byte.
C12_SettersAnswerNothing ==
    (OnSim /\ IsSetCommand)
        => /\ sim._out = <<>>
           /\ got = <<>>
           /\ gen # None => gen[1] = <<>>
           /\ last[1] = "read_byte" => nquiet >= 1

\* a fan duty has been set by a dispatched transaction and a read of it
\* came back empty
C12_Witness ==
    /\ OnSim
    /\ sim._current_cmd = Some(32)
    /\ sim._data = <<2, 2, 200>>
    /\ ndispatch = 1
    /\ nquiet >= 1
    /\ sim.fan_duty = 200
    /\ got = <<>>

\* C13: a dispatch changes only fields of the sub-state its command owns:
\* LED the two LED flags, fan the fan mode, duty and rpm, battery control
\* the battery mode and flags, keyboard backlight its flag and level, SMBIOS
\* write the field store; the reading commands and unknown ones nothing.
C13_OwnSubState ==
    (OnSim /\ dispatched) => changed \subseteq OwnFields

\* a dispatch of the fan command has changed the duty and the rpm
C13_Witness ==
    /\ OnSim
    /\ dispatched
    /\ sim._current_cmd = Some(32)
    /\ changed = {"fan_duty", "fan_rpm"}

\* C14 as stated: the device state changes only when a handler is
\* dispatched.
C14_AsStated ==
    (OnSim /\ changed \cap DeviceFields # {}) => dispatched

\* C14: a change of the device state is made by a dispatched handler or by
\* override_smbios_field_length, which truncates or zero-pads the stored
\* buffer of the field it names and touches nothing else of the device;
\* write_command, write_data and a read_byte that dispatches nothing leave
\* the device as it is.
C14_DispatchOrOverride ==
    (OnSim /\ changed # {})
        => \/ dispatched
           \/ /\ last[1] = "override_smbios_field_length"
              /\ changed \subseteq {"_smbios_store", "_smbios_length_override"}

\* a payload byte has been written to a device that an earlier transaction
\* changed, and the write changed nothing
C14_Witness ==
    /\ OnSim
    /\ last[1] = "write_data"
    /\ ~dispatched
    /\ changed = {}
    /\ Changed(EcSimulator_init, sim) # {}

\* C15: override_smbios_field_length(read_sub, n) resizes the stored buffer
\* to n bytes, keeping its first bytes and padding with zeros, and from then
\* on a read of that field generates n bytes; a read transaction that
\* expects n bytes and reads to the end returns n bytes.
C15_OverrideLength ==
    /\ (OnSim /\ last[1] = "override_smbios_field_length" /\ ovr # None
            /\ ~ovr[1].raised)
        => LET o == ovr[1]
               new == sim._smbios_store[o.read_sub]
           IN  /\ sim._smbios_length_override[o.read_sub] = o.length
               /\ new = [k \in 1..o.length |->
                            IF k <= Len(o.stored) THEN o.stored[k] ELSE 0]
    /\ (/\ OnSim
        /\ last[1] = "read_byte"
        /\ sim._current_cmd = Some(97)
        /\ gen # None
        /\ Len(sim._data) = 1
        /\ sim._data[1] \in DOMAIN _smbios_by_read
        /\ sim._data[1] \in DOMAIN sim._smbios_length_override)
        => LET n == sim._smbios_length_override[sim._data[1]]
           IN  /\ Len(gen[1]) = n
               /\ (pc = "done" /\ timed_out /\ expect_len = Some(n))
                    => result.kind = "return" /\ Len(result.value) = n

\* the 50-byte product name, overridden to 4 bytes, has been read as 4 bytes
C15_Witness ==
    /\ OnSim
    /\ pc = "done"
    /\ timed_out
    /\ args.field = "system_product_name"
    /\ sim._current_cmd = Some(97)
    /\ 1 \in DOMAIN sim._smbios_length_override
    /\ sim._smbios_length_override[1] = 4
    /\ FIELDS[args.field].length = 50
    /\ result.kind = "return"
    /\ Len(result.value) = 4
    /\ result.value = SubSeq(_SMBIOS_DEFAULTS[args.field], 1, 4)

\* C16: a field written through the write command is read back through the
\* read command: a write transaction leaves its payload in the store under
\* the field's read sub-command, a read transaction of the field's length
\* returns what the store holds, the catalog pairs each write sub-command
\* with the read sub-command of the same field, and the 6 bytes of
\* AA:BB:CC:DD:EE:FF decode to AA:BB:CC:DD:EE:FF.
C16_WriteThenRead ==
    /\ \A k \in DOMAIN FIELDS :
            /\ FIELDS[k].write_cmd = 96 /\ FIELDS[k].read_cmd = 97
            /\ _smbios_by_write[FIELDS[k].write_sub] = FIELDS[k]
            /\ _smbios_by_read[FIELDS[k].read_sub] = FIELDS[k]
    /\ (/\ OnSim /\ pc = "done" /\ ndispatch = 1
        /\ sim._current_cmd = Some(96)
        /\ sim._data # <<>>
        /\ sim._data[1] \in DOMAIN _smbios_by_write
        /\ Len(Tail(sim._data)) =
                _effective_length(sim, _smbios_by_write[sim._data[1]]))
        => sim._smbios_store[_smbios_by_write[sim._data[1]].read_sub]
                = Tail(sim._data)
    /\ (/\ OnSim /\ pc = "done" /\ timed_out
        /\ sim._current_cmd = Some(97)
        /\ Len(sim._data) = 1
        /\ sim._data[1] \in DOMAIN _smbios_by_read
        /\ expect_len =
                Some(_effective_length(sim, _smbios_by_read[sim._data[1]])))
        => /\ result = Return(sim._smbios_store[sim._data[1]])
           /\ (sim._smbios_store[sim._data[1]] =
                    _encode_field(FIELDS["mac_address"],
                                  _SMBIOS_DEFAULTS["mac_address"]).val
                /\ sim._data[1] = FIELDS["mac_address"].read_sub)
                => _decode_field(FIELDS["mac_address"], result.value)
                        = Ok(_SMBIOS_DEFAULTS["mac_address"])

\* six pattern bytes written to the MAC address have been read back
C16_Witness ==
    /\ OnSim
    /\ pc = "done"
    /\ timed_out
    /\ args.field = "mac_address"
    /\ sim._current_cmd = Some(97)
    /\ sim._data = << FIELDS["mac_address"].read_sub >>
    /\ FIELDS["mac_address"].read_sub \notin DOMAIN sim._smbios_length_override
    /\ result = Return(PatternBytes(6))

C18_VersionString ==
    (/\ OnSim /\ pc = "done" /\ timed_out
     /\ sim._current_cmd = Some(72)
     /\ sim._data = <<1>>
     /\ expect_len \in {None, Some(20)})
        => /\ result.kind = "return"
           /\ Len(result.value) = 20
           /\ ECVersion_decode(result.value)
                = <<83, 105, 109, 69, 67, 32, 118, 49, 46, 48>>

\* the version has been read after a fan duty was set and a field written
C18_Witness ==
    /\ OnSim
    /\ pc = "done"
    /\ timed_out
    /\ sim._current_cmd = Some(72)
    /\ result.kind = "return"
    /\ Len(result.value) = 20
    /\ ECVersion_decode(result.value) = SimVersion
    /\ sim.fan_duty = 200
    /\ {"fan_duty", "_smbios_store"} \subseteq Changed(EcSimulator_init, sim)

(***************************************************************************)
(* Claims about the field codecs.                                          *)
(***************************************************************************)
\* C19 as stated: for every descriptor and every value encode accepts,
\* decoding the bytes encode produced succeeds and yields the printable
\* (normalized) form encode returned.
C19_AsStated ==
    (codec.step = "decoded" /\ codec.enc.ok)
        => codec.dec.ok /\ codec.dec.val = codec.enc.printable

\* C20: the UUID segment swap of a 16-byte buffer reverses bytes 0-3, 4-5
\* and 6-7 and keeps bytes 8-15, and applied twice it returns the buffer.
C20_SwapInvolution ==
    (Len(codec.orig) = 16 /\ codec.nswap >= 1)
        => /\ codec.swap_ok
           /\ codec.nswap = 1 =>
                codec.buf = [k \in 1..16 |->
                    codec.orig[<<4, 3, 2, 1, 6, 5, 8, 7, 9, 10, 11, 12, 13,
                                 14, 15, 16>>[k]]]
           /\ codec.nswap = 2 => codec.buf = codec.orig

C20_Witness ==
    /\ codec.nswap = 2 /\ Len(codec.orig) = 16
    /\ \A j, k \in 1..16 : j # k => codec.orig[j] # codec.orig[k]
    /\ codec.buf = codec.orig

\* an encode call has returned or raised
Encoded_done == codec.step \in {"encoded", "decoded"}

\* C21 as stated: whenever the value handed to the bcd_date encoder holds a
\* character that is not a decimal digit, encode fails and produces no bytes.
C21_AsStated ==
    (/\ Encoded_done
     /\ fdef.encoding = "bcd_date"
     /\ \E k \in 1..Len(codec.value) :
            codec.value[k] \notin (48..57) \cup (1632..1641))
        => ~codec.enc.ok /\ codec.enc.val = <<>>

\* C22: decoding a bcd_date buffer fails with the invalid-BCD error when
\* some byte has a high or a low nibble above 9, and otherwise succeeds with
\* two digits per byte, the high nibble first.
C22_BcdDecode ==
    (codec.step = "read" /\ fdef.encoding = "bcd_date")
        => IF \E k \in 1..Len(codec.resp) :
                 codec.resp[k] \div 16 > 9 \/ codec.resp[k] % 16 > 9
           THEN /\ ~codec.dec.ok
                /\ codec.dec.err = "Invalid BCD digit in battery date"
           ELSE /\ codec.dec.ok
                /\ Len(codec.dec.val) = 2 * Len(codec.resp)
                /\ \A k \in 1..Len(codec.resp) :
                      /\ codec.dec.val[2 * k - 1] = 48 + (codec.resp[k] \div 16)
                      /\ codec.dec.val[2 * k] = 48 + (codec.resp[k] % 16)

\* a four-byte buffer whose only bad nibble is the high one of its first
\* byte has been refused
C22_Witness ==
    /\ codec.step = "read"
    /\ fdef.encoding = "bcd_date"
    /\ codec.resp = <<160, 21, 21, 21>>
    /\ ~codec.dec.ok

\* C23 as stated: whatever the encoding kind and the descriptor's length,
\* an encode that succeeds returns exactly field.length bytes.
C23_AsStated ==
    (Encoded_done /\ codec.enc.ok) => Len(codec.enc.val) = fdef.length

\* C24 as stated: for a uuid descriptor whose length is not 16 both encode
\* and decode fail.
C24_AsStated ==
    (fdef.encoding = "uuid" /\ fdef.length # 16)
        => /\ Encoded_done => ~codec.enc.ok
           /\ codec.step = "read" => ~codec.dec.ok

\* the tokens _normalize_byte_tokens starts from: the value split at
\* whitespace, hyphens, colons and commas
ValueTokens ==
    Split([k \in 1..Len(codec.value) |->
             IF codec.value[k] \in {45, 58, 44} THEN 32 ELSE codec.value[k]])

\* token is a decimal numeral of a byte
IsDecimalByte(token) ==
    /\ token # <<>>
    /\ \A k \in 1..Len(token) : token[k] \in 48..57
    /\ ByteRange([k \in 1..Len(token) |-> token[k] - 48], 10, 0) <= 255

\* C25 as stated: for a hex field of n bytes and a value of n tokens, a
\* token that is a decimal numeral d of 0..255 is encoded to the byte d, also
\* when the value is the single token of a one-byte field.
C25_AsStated ==
    (/\ Encoded_done
     /\ fdef.encoding = "hex"
     /\ Len(ValueTokens) = fdef.length
     /\ codec.enc.ok)
        => \A k \in 1..Len(ValueTokens) :
              IsDecimalByte(ValueTokens[k])
                => codec.enc.val[k] =
                     ByteRange([j \in 1..Len(ValueTokens[k]) |->
                                  ValueTokens[k][j] - 48], 10, 0)


(***************************************************************************)
(* Claims about the hardware transport.                                    *)
(***************************************************************************)
\* what txrx hands back from the bytes the twin simulator has answered
TwinResult == Reconcile(twin.out, expect_len, twin.timed_out)

\* the twin simulator is known to hand back something else than the
\* hardware run did: it holds a byte more than the hardware run collected,
\* so a call without expect_len returns more bytes, and a call whose
\* expect_len the twin has reached returns where the hardware run raised
TwinDiffers ==
    /\ ~twin.instep
    /\ \/ expect_len = None
       \/ /\ expect_len # None
          /\ Len(out) < expect_len[1]
          /\ expect_len[1] <= Len(twin.out)

\* C26: txrx is backend-agnostic: for every command, payload, expect_len,
\* wait_s >= 0 and overall timeout, a finished txrx over the hardware
\* transport has the result (the returned bytes, or the short-response
\* error) of txrx over a simulator that queues the bytes the EC presents.
C26_AsStated ==
    (ec = "EcIo" /\ pc = "done")
        => /\ twin.instep => result = TwinResult
           /\ ~TwinDiffers

\* the k-th port access of the call read the status port before the deadline
StatusPoll(k) ==
    /\ io.log[k][1] = "inb"
    /\ io.log[k][2] = DEFAULT_CMD_PORT
    /\ io.log[k][4] < io.timeout

\* some poll of the call, before its deadline, saw what the call waits for:
\* bit 0x02 clear for wait_ibf_clear, bit 0x01 set for wait_obf_set
Observed ==
    \E k \in 1..Len(io.log) :
        /\ StatusPoll(k)
        /\ IF io.op = "wait_ibf_clear"
           THEN io.log[k][3] \in {0, 1}
           ELSE io.log[k][3] \in {1, 3}

\* C27: wait_ibf_clear and wait_obf_set never raise: a finished wait has
\* returned a boolean, True exactly when some poll before the deadline saw
\* bit 0x02 clear (wait_ibf_clear) or bit 0x01 set (wait_obf_set), False
\* otherwise.
C27_WaitsReturnObserved ==
    (io.pc = "done" /\ io.op \in WaitOps)
        => (io.kind = "return" /\ io.flag = Observed)

\* a wait_ibf_clear that found the input buffer full, slept and then saw it
\* clear, and so returned True
C27_Witness ==
    /\ io.pc = "done" /\ io.op = "wait_ibf_clear"
    /\ io.kind = "return" /\ io.flag
    /\ Len(io.log) >= 2
    /\ io.log[1][3] \in {2, 3}

\* the data-port accesses of the call
DataAccesses == { k \in 1..Len(io.log) : io.log[k][2] = DEFAULT_DATA_PORT }

\* C28: read_byte reads the data port only after a poll saw bit 0x01 set:
\* a data-port read is the last access of the call and follows such a poll;
\* a read_byte that returned has returned the byte of that read; a read_byte
\* that timed out raised, read no data port and carries no byte.
C28_ReadAfterObf ==
    io.op = "read_byte"
        => /\ \A k \in DataAccesses :
                 /\ k = Len(io.log) /\ k > 1
                 /\ io.log[k][1] = "inb"
                 /\ StatusPoll(k - 1)
                 /\ io.log[k - 1][3] \in {1, 3}
           /\ (io.pc = "done" /\ io.kind = "return")
                 => /\ DataAccesses = {Len(io.log)}
                    /\ io.byte = Some(io.log[Len(io.log)][3])
           /\ (io.pc = "done" /\ io.kind # "return")
                 => /\ io.kind = "raise"
                    /\ DataAccesses = {}
                    /\ io.byte = None

\* a read_byte that polled an empty output buffer, slept, then saw bit 0x01
\* and returned the byte the EC had produced
C28_Witness ==
    /\ io.pc = "done" /\ io.op = "read_byte"
    /\ io.kind = "return" /\ io.byte = Some(7)
    /\ Len(io.log) = 3
    /\ io.log[1][3] \in {0, 2}

\* C29: write_command and write_data are not gated by the input-buffer
\* handshake: a finished write has returned (never raised) after exactly one
\* port access, the write of the byte to the command port (write_command)
\* or to the data port (write_data), with no status read, no wait and no
\* repetition, also when the input buffer was full.
C29_OneUngatedWrite ==
    (io.pc = "done" /\ io.op \in WriteOps)
        => /\ io.kind = "return"
           /\ io.t = 0
           /\ io.log = << <<"outb",
                           IF io.op = "write_command" THEN 108 ELSE 104,
                           io.arg % 256, 0>> >>

\* a write_data made and finished while the EC reported input buffer full
C29_Witness ==
    /\ io.pc = "done" /\ io.op = "write_data"
    /\ io.ibf0
    /\ io.kind = "return"
    /\ Len(io.log) = 1

(***************************************************************************)
(* Claims about SMBIOS.run.                                                *)
(***************************************************************************)
\* C30: a per-run field-length override never mutates the field catalog:
\* after any sequence of runs (read or write, with or without override,
\* successful or failing) the catalog has its initial entries, lengths
\* included, and an overriding run has worked on a derived descriptor.
C30_CatalogFixed ==
    /\ DOMAIN catalog = DOMAIN FIELDS
    /\ \A k \in DOMAIN FIELDS : catalog[k] = FIELDS[k]
    /\ (run.rc # None /\ run.field_length # None /\ run.field_length[1] > 0)
          => fdef = WithLength(FIELDS[args.field], run.field_length[1])

\* a run has read a field under an override that differs from the catalog
\* length, and succeeded
C30_Witness ==
    /\ run.rc = Some(0) /\ run.read
    /\ run.field_length = Some(4)
    /\ fdef.length = 4
    /\ FIELDS[args.field].length # 4
    /\ catalog[args.field].length # 4

(***************************************************************************)
(* Claims about the simulator's state.                                     *)
(***************************************************************************)
\* C31: the sensor-id to temperature mapping and the battery-info sub-id to
\* buffer mapping are fixed: in every state reached by transactions and
\* length overrides both equal their initial values, and popping a response
\* never shortens a stored battery-info buffer.
C31_MappingsFixed ==
    /\ sim.temps = InitTemps
    /\ sim.batt_info = InitBattInfo

\* a battery-info response has been read to its end and returned whole
C31_Witness ==
    /\ pc = "done" /\ cmd = 49 /\ data = <<23>>
    /\ result = Return(InitBattInfo[23])
    /\ sim._out = <<>>
    /\ got = InitBattInfo[23]

\* The write flow of the run that has just returned, enc being what
\* _encode_field gave for its value and before the device state a failed
\* encoding is to leave: on failure an error code, no txrx call, the device
\* as before; else the calls 0x60 [write_sub] + bytes and 0x62 [0x01], in
\* that order, the commit being the device's last transaction.
WriteFlow(enc, before) ==
    IF ~enc.ok
    THEN /\ run'.rc = Some(2)
         /\ run'.calls = <<>>
         /\ sim' = before
    ELSE /\ run'.calls = << <<96, <<fdef'.write_sub>> \o enc.val>>,
                            <<98, <<1>> >> >>
         /\ sim'._current_cmd = Some(98)
         /\ sim'._data = <<1>>
         /\ sim'._responded

\* a write run that got as far as encoding: no --field-length, or a valid one
WriteRun ==
    /\ run'.write # None
    /\ run'.rc # None
    /\ run'.field_length # None => run'.field_length[1] > 0

\* C32 as stated: a write run whose encoding fails returns an error code
\* without any transport operation, the device state unchanged; any other
\* makes exactly one field-write transaction and then exactly one commit.
C32_AsStated ==
    [][WriteRun => WriteFlow(_encode_field(fdef', run'.write[1]), sim)]_vars

\* C32, amended: as above, but a run with --field-length has applied the
\* length override to the simulator before it encodes, so a failed encoding
\* leaves the device state as that override made it.
C32_WriteFlow ==
    [][WriteRun =>
          WriteFlow(_encode_field(fdef', run'.write[1]),
                    IF run'.field_length = None THEN sim
                    ELSE _sync_simulator_field_length(sim, fdef'))]_vars

\* a write run under a length override has written the field and committed
C32_Witness ==
    /\ run.write # None /\ run.rc = Some(0)
    /\ run.field_length = Some(4)
    /\ Len(run.calls) = 2
    /\ sim._current_cmd = Some(98)
    /\ sim._smbios_store[fdef.read_sub] = Tail(run.calls[1][2])

\* C33: in every reachable state of the simulator, for every catalog field
\* the stored configuration buffer has exactly the field's effective length:
\* the overridden length if one is set, else the catalog length.
C33_StoredLength ==
    \A key \in DOMAIN FIELDS :
        /\ FIELDS[key].read_sub \in DOMAIN sim._smbios_store
        /\ Len(sim._smbios_store[FIELDS[key].read_sub])
              = _effective_length(sim, FIELDS[key])

\* a field longer than 4 bytes is overridden to 4, and a write made under
\* the override has been stored
C33_Witness ==
    /\ args.module = "smbios"
    /\ FIELDS[args.field].length > 4
    /\ _effective_length(sim, FIELDS[args.field]) = 4
    /\ sim._smbios_store[FIELDS[args.field].read_sub] = PatternBytes(4)

\* C34: the simulator's battery charging and discharging flags are never
\* both true, in any state reached by any sequence of transactions.
C34_NotBothFlags == ~(sim.batt_charging /\ sim.batt_discharging)

\* a charging battery has just been switched to discharging: the dispatch
\* changed both flags
C34_Witness ==
    /\ dispatched
    /\ changed = {"batt_charging", "batt_discharging"}
    /\ sim.batt_discharging /\ ~sim.batt_charging

\* C35: the simulator's numeric state stays in range after any sequence of
\* transactions with arbitrary payload values: fan_duty in 0..255, fan_rpm
\* in 0..65535, kb_backlight_level in 0..3, and every payload byte and the
\* command byte the simulator stores in 0..255.
C35_InRange ==
    /\ sim.fan_duty \in 0..255
    /\ sim.fan_rpm \in 0..65535
    /\ sim.kb_backlight_level \in 0..3
    /\ \A k \in 1..Len(sim._data) : sim._data[k] \in 0..255
    /\ sim._current_cmd # None => sim._current_cmd[1] \in 0..255

\* the duty 300 has been stored as 44, the level 9 as 3, the RPM bytes
\* 255, 255 as 65535, and the command -240 is held as 16
C35_Witness ==
    /\ sim.fan_duty = 44
    /\ sim.kb_backlight_level = 3
    /\ sim.fan_rpm = 65535
    /\ sim._current_cmd = Some(16)
    /\ sim.led_power

\* the step changes the simulated device state
DeviceChanges == \E f \in DeviceFields : sim'[f] # sim[f]

\* the step is the first read_byte of its transaction, and it dispatched
FirstRead ==
    /\ last'[1] = "read_byte"
    /\ dispatched'
    /\ Len(got) + nquiet = 0
    /\ Len(got') + nquiet' = 1

\* C36: in the simulator a command takes effect on the device state at the
\* first read_byte of its transaction, never at write_command or
\* write_data: every step that changes the device state is such a read (or
\* a length override, made between transactions), so a transaction that is
\* written but never read leaves the device state as it was.
C36_EffectAtFirstRead ==
    [][(ec = "EcSimulator" /\ DeviceChanges)
          => \/ FirstRead
             \/ last'[1] = "override_smbios_field_length"]_vars

\* a set-duty transaction whose drain loop made no read has returned, the
\* duty still the initial one; the next write_command finds it so
C36_Witness ==
    /\ ec = "EcSimulator"
    /\ pc = "done" /\ cmd = 32 /\ data = <<2, 2, 200>>
    /\ sim._data = <<2, 2, 200>>
    /\ Len(got) + nquiet = 0
    /\ ~sim._responded
    /\ sim.fan_duty = 128
    /\ Changed(EcSimulator_init, sim) = {}

\* the simulator as a fan transaction with the payload d finds it
FanTransaction(s, d) == [s EXCEPT !._current_cmd = Some(32), !._data = d]

\* the set-RPM handler stores r and the get-RPM handler then queues r,
\* low byte first
RpmStoredAndQueued(r) ==
    LET Get(s) ==
            /\ s.fan_rpm = r
            /\ _generate_response(FanTransaction(s, <<5, 2>>))._out
                  = <<r % 256, r \div 256>>
    IN  Get(_generate_response(
                FanTransaction(sim, <<3, 3, r % 256, r \div 256>>)))

C38_AsStated ==
    [][(ec = "EcSimulator" /\ args.module = "led" /\ FirstRead)
          => LET sub == sim._data[1]
                 val == sim._data[2]
             IN  /\ (sub = 1) => /\ sim'.led_power = (val # 1)
                                 /\ sim'.led_charge = sim.led_charge
                 /\ (sub = 2) => /\ sim'.led_charge = (val # 1)
                                 /\ sim'.led_power = sim.led_power]_vars

\* the step dispatches a configuration-field write transaction (0x60)
SmbiosWriteRead == ec = "EcSimulator" /\ FirstRead /\ sim._current_cmd = Some(96)

\* the field the transaction's first payload byte addresses, if any
Addressed ==
    IF sim._data # <<>> /\ sim._data[1] \in DOMAIN _smbios_by_write
    THEN Some(_smbios_by_write[sim._data[1]].read_sub)
    ELSE None

\* C39: a configuration-field write transaction (0x60) addressed to one
\* field changes only that field's stored buffer: the stored buffers of all
\* other fields, all length overrides and the rest of the device state are
\* unchanged, and a write whose subcommand matches no catalog field, or
\* with an empty payload, changes nothing.
C39_WriteFrame ==
    [][SmbiosWriteRead
          => /\ sim'._smbios_length_override = sim._smbios_length_override
             /\ \A f \in DeviceFields \ {"_smbios_store"} : sim'[f] = sim[f]
             /\ DOMAIN sim'._smbios_store = DOMAIN sim._smbios_store
             /\ \A rs \in DOMAIN sim._smbios_store :
                    Addressed # Some(rs)
                        => sim'._smbios_store[rs] = sim._smbios_store[rs]]_vars

\* a write to the session's field, made under a length override, has been
\* dispatched: the field's buffer is the one thing that changed
C39_Witness ==
    /\ ec = "EcSimulator"
    /\ args.module = "smbios"
    /\ dispatched
    /\ last[1] = "read_byte"
    /\ sim._current_cmd = Some(96)
    /\ changed = {"_smbios_store"}
    /\ FIELDS[args.field].read_sub \in DOMAIN sim._smbios_length_override
    /\ sim._smbios_store[FIELDS[args.field].read_sub] = PatternBytes(4)


====
